---- MODULE Spec2Model ----
(***************************************************************************)
(* Model of the Lancelot binary-analysis core:                             *)
(*   - core/src/aspace.rs      DenseAddressSpace (paged address space)     *)
(*   - core/src/workspace.rs   Workspace::probe, read_insn, read_utf8,     *)
(*                             get_basic_blocks, WorkspaceBuilder::load    *)
(*   - core/src/loader.rs      Section::contains, Section::end             *)
(* A Rust panic is modelled as the result "panic"; the process has then    *)
(* terminated and no further operation runs.                               *)
(***************************************************************************)
EXTENDS Integers, Sequences, FiniteSets, TLC

VARIABLES
    pages,    \* DenseAddressSpace.pages
    last,     \* the last address-space call, its arguments and its result
    module,   \* Workspace.module: the loaded image and its address space
    meta,     \* flow metadata: rva -> instruction length, 0 when not an insn
    xrefs,    \* the cross-references recorded by the disassembly
    reply,    \* the last workspace call, its arguments and its result
    build,    \* WorkspaceBuilder::load: the builder's flags and the analyzer loop
    relocs,   \* RelocAnalyzer: the relocation directory and what was seeded
    flirt     \* FLIRT: the signatures, the function bytes and the matches

aspaceVars == <<pages, last>>

wsVars == <<module, meta, xrefs, reply>>

loadVars == <<build, relocs, flirt>>

vars == <<pages, last, module, meta, xrefs, reply, build, relocs, flirt>>

(***************************************************************************)
(* Bounds of the model.                                                    *)
(***************************************************************************)
\* largest capacity handed to with_capacity, in pages
MaxCapPages == 1
\* longest program (in instructions) loaded as a flat image
MaxInsns == 3
\* number of pages of the sectioned images
MaxImagePages == 3

(***************************************************************************)
(* core/src/aspace.rs                                                      *)
(***************************************************************************)
PAGE_SIZE == 4096

page(rva) == rva \div PAGE_SIZE

page_offset(rva) == rva % PAGE_SIZE

\* Option<Page<T>>: None is the empty tuple, Some(page) the tuple of the
\* page's PAGE_SIZE elements.
None == <<>>

is_some(slot) == slot /= None

\* pages.len()
NumSlots(pgs) == Len(pgs)

\* pages[i] with a 0-based index that is in bounds
Slot(pgs, i) == pgs[i + 1]

with_capacity(capacity) == [i \in 1..(page(capacity) + 1) |-> None]

\* Page::new(items): a default page overwritten by copy_from_slice(items);
\* map_page has checked that items holds exactly PAGE_SIZE elements
Page_new(items) == items

\* map_page with the capacity test page(rva) >= self.pages.len()
map_page_ErrAtLen(pgs, rva, items) ==
    IF page_offset(rva) /= 0 THEN [res |-> "panic", pages |-> pgs]
    ELSE IF Len(items) /= PAGE_SIZE THEN [res |-> "panic", pages |-> pgs]
    ELSE IF page(rva) >= NumSlots(pgs) THEN [res |-> "NotMapped", pages |-> pgs]
    ELSE [res |-> "Ok",
          pages |-> [pgs EXCEPT ![page(rva) + 1] = Page_new(items)]]

map_page(pgs, rva, items) ==
    IF page_offset(rva) /= 0 THEN [res |-> "panic", pages |-> pgs]
    ELSE IF Len(items) /= PAGE_SIZE THEN [res |-> "panic", pages |-> pgs]
    ELSE IF page(rva) > NumSlots(pgs) THEN [res |-> "NotMapped", pages |-> pgs]
    ELSE IF page(rva) >= NumSlots(pgs) THEN [res |-> "panic", pages |-> pgs]
    ELSE [res |-> "Ok",
          pages |-> [pgs EXCEPT ![page(rva) + 1] = Page_new(items)]]

\* the loop of map over items.chunks_exact(PAGE_SIZE), from chunk i on
RECURSIVE map_from(_, _, _, _)
map_from(pgs, rva, items, i) ==
    IF (i + 1) * PAGE_SIZE > Len(items) THEN [res |-> "Ok", pages |-> pgs]
    ELSE LET chunk == SubSeq(items, i * PAGE_SIZE + 1, (i + 1) * PAGE_SIZE)
             r == map_page(pgs, rva + i * PAGE_SIZE, chunk)
         IN  IF r.res /= "Ok" THEN r
             ELSE map_from(r.pages, rva, items, i + 1)

map(pgs, rva, items) == map_from(pgs, rva, items, 0)

\* the longest buffer handed to map
MaxItems == 2 * PAGE_SIZE

\* vec![Default::default(); size]: size default (zero) elements
Defaults == [i \in 1..MaxItems |-> 0]

DefaultItems(size) == SubSeq(Defaults, 1, size)

map_empty(pgs, rva, size) == map(pgs, rva, DefaultItems(size))

probe(pgs, rva) ==
    IF page(rva) > NumSlots(pgs) THEN [res |-> "false", val |-> <<>>]
    ELSE IF page(rva) >= NumSlots(pgs) THEN [res |-> "panic", val |-> <<>>]
    ELSE IF is_some(Slot(pgs, page(rva))) THEN [res |-> "true", val |-> <<>>]
    ELSE [res |-> "false", val |-> <<>>]

get(pgs, rva) ==
    IF page(rva) > NumSlots(pgs) THEN [res |-> "None", val |-> <<>>]
    ELSE IF page(rva) >= NumSlots(pgs) THEN [res |-> "panic", val |-> <<>>]
    ELSE IF ~is_some(Slot(pgs, page(rva))) THEN [res |-> "None", val |-> <<>>]
    ELSE [res |-> "Some",
          val |-> <<Slot(pgs, page(rva))[page_offset(rva) + 1]>>]

slice_simple(pgs, start, end) ==
    IF page(start) > NumSlots(pgs) THEN [res |-> "NotMapped", val |-> <<>>]
    ELSE IF page(start) >= NumSlots(pgs) THEN [res |-> "panic", val |-> <<>>]
    ELSE IF ~is_some(Slot(pgs, page(start)))
         THEN [res |-> "NotMapped", val |-> <<>>]
    ELSE [res |-> "Ok",
          val |-> SubSeq(Slot(pgs, page(start)),
                         page_offset(start) + 1, page_offset(end))]

\* region two of slice_split: the complete pages from_index..to_index-1
RECURSIVE slice_split_two(_, _, _, _)
slice_split_two(pgs, from_index, to_index, ret) ==
    IF from_index >= to_index THEN [res |-> "Ok", val |-> ret]
    ELSE IF ~is_some(Slot(pgs, from_index)) THEN [res |-> "panic", val |-> <<>>]
    ELSE slice_split_two(pgs, from_index + 1, to_index,
                         ret \o Slot(pgs, from_index))

slice_split(pgs, start, end) ==
    IF page(end) > NumSlots(pgs) THEN [res |-> "NotMapped", val |-> <<>>]
    ELSE
    LET start_page == page(start)
        end_page == IF page_offset(end) = 0 THEN page(end) - 1 ELSE page(end)
    IN
    IF \E p \in start_page..(end_page - 1) :
           probe(pgs, p * PAGE_SIZE).res = "false"
    THEN [res |-> "NotMapped", val |-> <<>>]
    \* one: from start to the end of its page
    ELSE IF ~is_some(Slot(pgs, page(start)))
         THEN [res |-> "panic", val |-> <<>>]
    ELSE
    LET one == SubSeq(Slot(pgs, page(start)), page_offset(start) + 1, PAGE_SIZE)
        \* two: any intermediate complete pages
        two == IF page(start) /= page(end) - 1
               THEN slice_split_two(pgs, page(start) + 1, page(end), one)
               ELSE [res |-> "Ok", val |-> one]
    IN
    IF two.res /= "Ok" THEN two
    \* three: from the start of the final page until end
    ELSE IF page_offset(end) /= 0
    THEN IF page(end) >= NumSlots(pgs) THEN [res |-> "panic", val |-> <<>>]
         ELSE IF ~is_some(Slot(pgs, page(end)))
              THEN [res |-> "panic", val |-> <<>>]
         ELSE [res |-> "Ok",
               val |-> two.val \o SubSeq(Slot(pgs, page(end)), 1, page_offset(end))]
    ELSE two

slice(pgs, start, end) ==
    IF start > end THEN [res |-> "panic", val |-> <<>>]
    ELSE IF page(start) = page(end) THEN slice_simple(pgs, start, end)
    ELSE slice_split(pgs, start, end)

(***************************************************************************)
(* Inputs of the address-space operations.                                 *)
(***************************************************************************)
\* element i (1-based) of the buffer with the given tag; tag 0 is the
\* default-valued buffer of map_empty
Fill(tag, i) == IF tag = 0 THEN 0 ELSE (tag * 16 + i) % 256

\* the tags of the buffers handed to map
Tags == {1}

Buffers == [tag \in {0} \cup Tags |-> [i \in 1..MaxItems |-> Fill(tag, i)]]

Items(tag, len) == SubSeq(Buffers[tag], 1, len)

Caps == {MaxCapPages * PAGE_SIZE}

\* page-aligned and unaligned map addresses, inside and beyond the capacity
MapRvas == {n * PAGE_SIZE : n \in 0..(MaxCapPages + 2)} \cup {PAGE_SIZE \div 2}

\* buffer lengths: multiples of the page size and others
MapLens == {n * (PAGE_SIZE \div 2) : n \in 1..4}

\* addresses at and around the page boundaries
ReadAddrs ==
    {a \in UNION {{n * PAGE_SIZE - 1, n * PAGE_SIZE, n * PAGE_SIZE + 1} :
                     n \in 0..(MaxCapPages + 2)} : a >= 0}

\* the addresses the Probe and Get actions are called with
ProbeArgs == {n * PAGE_SIZE : n \in 0..(MaxCapPages + 2)}

\* the (start, end) pairs the Slice action is called with
SliceArgs == {<<a, b>> \in ReadAddrs \X ReadAddrs :
                 /\ a <= b
                 /\ a \in {0, PAGE_SIZE - 1, PAGE_SIZE}
                 /\ page_offset(b) \in {0, 1}}

Running == last.res /= "panic"

(***************************************************************************)
(* The address space as a state machine.                                   *)
(*   pages  DenseAddressSpace.pages                                        *)
(*   last   the last call, its arguments and what it returned              *)
(***************************************************************************)
\* the workspace part of the state while only the address space runs
NoLoad ==
    /\ build = [op |-> "none"]
    /\ relocs = [op |-> "none"]
    /\ flirt = [op |-> "none"]

NoWorkspace ==
    /\ module = [image |-> <<>>, tile |-> <<0>>, sections |-> <<>>,
                 mapped |-> {}]
    /\ meta = <<>>
    /\ xrefs = {}
    /\ reply = [op |-> "none"]

InitAspace ==
    /\ \E cap \in Caps : pages = with_capacity(cap)
    /\ last = [op |-> "with_capacity", a |-> 0, b |-> 0, tag |-> 0,
               res |-> "Ok", val |-> <<>>]
    /\ NoWorkspace
    /\ NoLoad

Map(rva, len, tag) ==
    /\ Running
    /\ UNCHANGED <<wsVars, loadVars>>
    /\ LET r == map(pages, rva, Items(tag, len))
       IN  /\ pages' = r.pages
           /\ last' = [op |-> "map", a |-> rva, b |-> len, tag |-> tag,
                       res |-> r.res, val |-> <<>>]

MapEmpty(rva, size) ==
    /\ Running
    /\ UNCHANGED <<wsVars, loadVars>>
    /\ LET r == map_empty(pages, rva, size)
       IN  /\ pages' = r.pages
           /\ last' = [op |-> "map_empty", a |-> rva, b |-> size, tag |-> 0,
                       res |-> r.res, val |-> <<>>]

Probe(rva) ==
    /\ Running
    /\ UNCHANGED <<wsVars, loadVars>>
    /\ LET r == probe(pages, rva)
       IN  last' = [op |-> "probe", a |-> rva, b |-> 0, tag |-> 0,
                    res |-> r.res, val |-> r.val]
    /\ UNCHANGED pages

Get(rva) ==
    /\ Running
    /\ UNCHANGED <<wsVars, loadVars>>
    /\ LET r == get(pages, rva)
       IN  last' = [op |-> "get", a |-> rva, b |-> 0, tag |-> 0,
                    res |-> r.res, val |-> r.val]
    /\ UNCHANGED pages

Slice(start, end) ==
    /\ Running
    /\ UNCHANGED <<wsVars, loadVars>>
    /\ LET r == slice(pages, start, end)
       IN  last' = [op |-> "slice", a |-> start, b |-> end, tag |-> 0,
                    res |-> r.res, val |-> r.val]
    /\ UNCHANGED pages

NextAspace ==
    \/ \E rva \in MapRvas, len \in MapLens, tag \in Tags : Map(rva, len, tag)
    \/ \E rva \in MapRvas, size \in MapLens : MapEmpty(rva, size)
    \/ \E rva \in ProbeArgs : Probe(rva)
    \/ \E rva \in ProbeArgs : Get(rva)
    \/ \E args \in SliceArgs : Slice(args[1], args[2])

SpecAspace == InitAspace /\ [][NextAspace]_vars

(***************************************************************************)
(* The workspace: core/src/workspace.rs, core/src/loader.rs.               *)
(*                                                                         *)
(* module = [image, tile, sections, mapped]                                *)
(*   image     the first bytes of the image, from rva 0 on                 *)
(*   tile      the bytes that repeat after them (<<0>>: zero padding)      *)
(*   sections  the loaded sections [addr, size, exec]                      *)
(*   mapped    the page indices mapped in module.address_space             *)
(***************************************************************************)
\* longest buffer read_insn hands to the decoder plus one (the loop bound)
MAX_INSN_BUF == 16

\* WorkspaceError
InvalidAddress == "InvalidAddress"

InvalidInstruction == "InvalidInstruction"

\* XrefType
Fallthrough == "Fallthrough"

Call == "Call"

UnconditionalJump == "UnconditionalJump"

ConditionalJump == "ConditionalJump"

ConditionalMove == "ConditionalMove"

\* A Section keeps its u32 size in two fields: size31 is bit 31 and size
\* the 31 bits below it.
\* self.size as i32: the u32 size reinterpreted as a signed 32 bit value
size_as_i32(sec) ==
    IF sec.size31 = 1 THEN sec.size - 2147483647 - 1 ELSE sec.size

\* Section::contains
Section_contains(sec, rva) ==
    IF rva < sec.addr THEN FALSE
    ELSE LET max == sec.addr + size_as_i32(sec)
         IN  IF rva >= max THEN FALSE
             ELSE TRUE

\* rva < section.end(), where end() is addr + size as i64: the end of a
\* section with size31 set lies at 2^31 or above, past every rva used here
below_end(sec, rva) ==
    IF sec.size31 = 1 THEN TRUE ELSE rva < sec.addr + sec.size

\* Range { start: section.addr, end: section.end() }.contains(&rva)
Range_contains(sec, rva) == sec.addr <= rva /\ below_end(sec, rva)

\* the byte of the image at rva
ByteAt(mod, rva) ==
    IF rva < Len(mod.image) THEN mod.image[rva + 1]
    ELSE mod.tile[((rva - Len(mod.image)) % Len(mod.tile)) + 1]

\* module.address_space.probe(rva): is the page of rva mapped?
address_space_probe(mod, rva) == page(rva) \in mod.mapped

\* module.address_space.slice_into(rva, buf) with |buf| = n: succeeds iff
\* every page touched by [rva, rva + n) is mapped
address_space_slice_into(mod, rva, n) ==
    IF \A p \in page(rva)..page(rva + n - 1) : n > 0 => p \in mod.mapped
    THEN [res |-> "Ok", val |-> [i \in 1..n |-> ByteAt(mod, rva + i - 1)]]
    ELSE [res |-> "NotMapped", val |-> <<>>]

\* is rva inside an executable section
InExecutableSection(mod, rva) ==
    \E i \in 1..Len(mod.sections) :
        mod.sections[i].exec /\ Range_contains(mod.sections[i], rva)

\* get_meta(rva).is_some(): flow metadata is mapped, page by page, for the
\* executable sections
get_meta_is_some(mod, rva) ==
    \E i \in 1..Len(mod.sections) :
        /\ mod.sections[i].exec
        /\ (mod.sections[i].size > 0 \/ mod.sections[i].size31 = 1)
        /\ page(mod.sections[i].addr) <= page(rva)
        /\ below_end(mod.sections[i], page(rva) * PAGE_SIZE)

(***************************************************************************)
(* The instruction decoder (an external library), on the instructions the  *)
(* loaded programs are made of: NOP, RET, JMP rel8, JNZ rel8, CALL rel32.  *)
(***************************************************************************)
\* the signed value of a byte
Signed8(b) == IF b >= 128 THEN b - 256 ELSE b

\* the signed value of four little-endian bytes
Signed32(b0, b1, b2, b3) ==
    b0 + 256 * b1 + 65536 * b2 + 16777216 * Signed8(b3)

NoInsn == [ok |-> FALSE, length |-> 0, mnemonic |-> "INVALID", disp |-> 0]

decoder_decode(buf) ==
    IF Len(buf) = 0 THEN NoInsn
    ELSE IF buf[1] = 144
         THEN [ok |-> TRUE, length |-> 1, mnemonic |-> "NOP", disp |-> 0]
    ELSE IF buf[1] = 195
         THEN [ok |-> TRUE, length |-> 1, mnemonic |-> "RET", disp |-> 0]
    ELSE IF buf[1] = 235 /\ Len(buf) >= 2
         THEN [ok |-> TRUE, length |-> 2, mnemonic |-> "JMP",
               disp |-> Signed8(buf[2])]
    ELSE IF buf[1] = 117 /\ Len(buf) >= 2
         THEN [ok |-> TRUE, length |-> 2, mnemonic |-> "JNZ",
               disp |-> Signed8(buf[2])]
    ELSE IF buf[1] = 232 /\ Len(buf) >= 5
         THEN [ok |-> TRUE, length |-> 5, mnemonic |-> "CALL",
               disp |-> Signed32(buf[2], buf[3], buf[4], buf[5])]
    ELSE NoInsn

(***************************************************************************)
(* Workspace::read_insn                                                    *)
(***************************************************************************)
\* the loop body of read_insn for buflen, buflen - 1, ..., 0
RECURSIVE read_insn_loop(_, _, _)
read_insn_loop(mod, rva, buflen) ==
    LET r == address_space_slice_into(mod, rva, buflen)
    IN  IF r.res = "Ok"
        THEN LET insn == decoder_decode(r.val)
             IN  IF insn.ok
                 THEN [res |-> "Ok", insn |-> insn, buflen |-> buflen]
                 ELSE [res |-> InvalidInstruction, insn |-> NoInsn,
                       buflen |-> buflen]
        ELSE IF buflen = MAX_INSN_BUF /\ ~address_space_probe(mod, rva)
        THEN [res |-> InvalidAddress, insn |-> NoInsn, buflen |-> -1]
        ELSE IF buflen = 0
        THEN [res |-> InvalidAddress, insn |-> NoInsn, buflen |-> -1]
        ELSE read_insn_loop(mod, rva, buflen - 1)

\* for buflen in (0x0..0x10).rev()
read_insn(mod, rva) == read_insn_loop(mod, rva, MAX_INSN_BUF - 1)

(***************************************************************************)
(* Workspace::read_utf8                                                    *)
(***************************************************************************)
\* the size of the buffer read_utf8 reads into
UTF8_BUF_LEN == 4096

\* a continuation byte of UTF-8
utf8_cont(s, i) == i <= Len(s) /\ s[i] >= 128 /\ s[i] <= 191

\* the bytes the character that starts at s[i] takes, 0 when there is no
\* well-formed character there
utf8_width(s, i) ==
    LET b == s[i]
        second(lo, hi) == i + 1 <= Len(s) /\ s[i + 1] >= lo /\ s[i + 1] <= hi
    IN  IF b < 128 THEN 1
        ELSE IF b >= 194 /\ b <= 223
        THEN IF utf8_cont(s, i + 1) THEN 2 ELSE 0
        ELSE IF b >= 224 /\ b <= 239
        THEN IF /\ second(IF b = 224 THEN 160 ELSE 128,
                          IF b = 237 THEN 159 ELSE 191)
                /\ utf8_cont(s, i + 2)
             THEN 3 ELSE 0
        ELSE IF b >= 240 /\ b <= 244
        THEN IF /\ second(IF b = 240 THEN 144 ELSE 128,
                          IF b = 244 THEN 143 ELSE 191)
                /\ utf8_cont(s, i + 2)
                /\ utf8_cont(s, i + 3)
             THEN 4 ELSE 0
        ELSE 0

\* std::str::from_utf8(s).is_ok(), from index i on
RECURSIVE from_utf8_is_ok(_, _)
from_utf8_is_ok(s, i) ==
    IF i > Len(s) THEN TRUE
    ELSE LET w == utf8_width(s, i)
         IN  IF w = 0 THEN FALSE ELSE from_utf8_is_ok(s, i + w)

\* buf.split(|&b| b == 0x0).next().unwrap(): the bytes before the first 0
first_split(buf) ==
    IF \E i \in 1..Len(buf) : buf[i] = 0
    THEN LET z == CHOOSE i \in 1..Len(buf) :
                      buf[i] = 0 /\ \A j \in 1..(i - 1) : buf[j] /= 0
         IN  SubSeq(buf, 1, z - 1)
    ELSE buf

\* the first section that contains rva, 0 when there is none
find_section(mod, rva) ==
    IF \E i \in 1..Len(mod.sections) : Section_contains(mod.sections[i], rva)
    THEN CHOOSE i \in 1..Len(mod.sections) :
             /\ Section_contains(mod.sections[i], rva)
             /\ \A j \in 1..(i - 1) : ~Section_contains(mod.sections[j], rva)
    ELSE 0

\* Workspace::read_utf8: read the whole buffer or, when that fails, up to
\* the end of the section that contains rva; the string is what comes
\* before the first 0
read_utf8(mod, rva) ==
    LET whole == address_space_slice_into(mod, rva, UTF8_BUF_LEN)
        i == find_section(mod, rva)
        \* section.end() - rva, cut at the length of the buffer
        size == IF mod.sections[i].size31 = 1 THEN UTF8_BUF_LEN
                ELSE LET n == mod.sections[i].addr + mod.sections[i].size - rva
                     IN  IF n < UTF8_BUF_LEN THEN n ELSE UTF8_BUF_LEN
        part == address_space_slice_into(mod, rva, size)
        decode(buf) ==
            LET sbuf == first_split(buf)
            IN  IF from_utf8_is_ok(sbuf, 1) THEN [res |-> "Ok", str |-> sbuf]
                ELSE [res |-> "Utf8Error", str |-> <<>>]
    IN  IF whole.res = "Ok" THEN decode(whole.val)
        ELSE IF i = 0 THEN [res |-> InvalidAddress, str |-> <<>>]
        ELSE IF part.res /= "Ok" THEN [res |-> part.res, str |-> <<>>]
        ELSE decode(part.val)

(***************************************************************************)
(* Workspace::probe                                                        *)
(***************************************************************************)
Workspace_probe(mod, rva, length, perms) ==
    IF /\ "X" \in perms
       /\ ~(get_meta_is_some(mod, rva) /\ get_meta_is_some(mod, rva + length))
    THEN FALSE
    ELSE IF /\ "R" \in perms
            /\ ~(/\ address_space_probe(mod, rva)
                 /\ address_space_probe(mod, rva + length))
    THEN FALSE
    ELSE TRUE

(***************************************************************************)
(* The recursive disassembly: make_insn / make_function and the worklist.  *)
(***************************************************************************)
Xref(src, dst, typ) == [src |-> src, dst |-> dst, typ |-> typ]

\* the xrefs of the instruction insn decoded at rva, in the order they are
\* emitted; a target outside every executable section is dropped
InsnXrefs(mod, rva, insn) ==
    LET next == rva + insn.length
        target == next + insn.disp
        flow(typ) == IF target >= 0 /\ InExecutableSection(mod, target)
                     THEN <<Xref(rva, target, typ)>> ELSE <<>>
        fall == IF InExecutableSection(mod, next)
                THEN <<Xref(rva, next, Fallthrough)>> ELSE <<>>
    IN  CASE insn.mnemonic = "JMP" -> flow(UnconditionalJump)
          [] insn.mnemonic = "JNZ" -> flow(ConditionalJump) \o fall
          [] insn.mnemonic = "CALL" -> flow(Call) \o fall
          [] insn.mnemonic = "RET" -> <<>>
          [] OTHER -> fall

SeqRange(q) == {q[i] : i \in 1..Len(q)}

\* drain the worklist: decode each pending rva once, record its metadata
\* and xrefs and enqueue its successors
RECURSIVE analyze(_, _, _, _)
analyze(mod, worklist, m, xs) ==
    IF worklist = <<>> THEN [meta |-> m, xrefs |-> xs]
    ELSE LET rva == Head(worklist)
             rest == Tail(worklist)
         IN  IF m[rva + 1] /= 0 THEN analyze(mod, rest, m, xs)
             ELSE LET r == read_insn(mod, rva)
                  IN  IF r.res /= "Ok" THEN analyze(mod, rest, m, xs)
                      ELSE LET new == InsnXrefs(mod, rva, r.insn)
                               succ == [i \in 1..Len(new) |-> new[i].dst]
                           IN  analyze(mod, succ \o rest,
                                       [m EXCEPT ![rva + 1] = r.insn.length],
                                       xs \cup SeqRange(new))

\* make_function(rva) followed by analyze()
make_function(mod, rva, m, xs) == analyze(mod, <<rva>>, m, xs)

(***************************************************************************)
(* Workspace::get_basic_blocks                                             *)
(***************************************************************************)
\* get_insn_length(rva)?: the length, or 0 for the error
get_insn_length(m, rva) ==
    IF rva >= 0 /\ rva < Len(m) THEN m[rva + 1] ELSE 0

XrefRank(typ) ==
    CASE typ = UnconditionalJump -> 0
      [] typ = ConditionalJump -> 1
      [] typ = ConditionalMove -> 2
      [] typ = Call -> 3
      [] OTHER -> 4

XrefBefore(x, y) ==
    \/ x.src < y.src
    \/ x.src = y.src /\ XrefRank(x.typ) < XrefRank(y.typ)
    \/ x.src = y.src /\ x.typ = y.typ /\ x.dst < y.dst

\* a set of xrefs as the list it is stored as
RECURSIVE XrefList(_)
XrefList(set) ==
    IF set = {} THEN <<>>
    ELSE LET x == CHOOSE x \in set : \A y \in set \ {x} : XrefBefore(x, y)
         IN  <<x>> \o XrefList(set \ {x})

get_xrefs_from(xs, rva) == XrefList({x \in xs : x.src = rva})

get_xrefs_to(xs, rva) == XrefList({x \in xs : x.dst = rva})

\* a match on the xrefs-from that also takes Call for a flow
IsFlow_WithCall(typ) ==
    typ \in {UnconditionalJump, ConditionalJump, ConditionalMove, Call}

\* the match on xref.typ over the xrefs-from: the arms that set
\* has_flow_from and push a successor
IsFlow(typ) == typ \in {UnconditionalJump, ConditionalJump, ConditionalMove}

\* a loop over the xrefs-to that never finds a flow
has_flow_to_Never(xs, next_insn) == FALSE

\* a loop over the xrefs-to that takes a Call for a flow as well
has_flow_to_AlsoCall(xs, next_insn) ==
    \E x \in xs : x.dst = next_insn /\ x.typ /= Fallthrough

\* does the next instruction have non-fallthrough flow to it?
has_flow_to(xs, next_insn) ==
    LET to == get_xrefs_to(xs, next_insn)
    IN  \E i \in 1..Len(to) :
            to[i].typ \in {UnconditionalJump, ConditionalJump, ConditionalMove}

\* the 'insns loop: extend current_bb from current_insn on
RECURSIVE bb_insns(_, _, _, _)
bb_insns(m, xs, current_bb, current_insn) ==
    LET current_insn_length == get_insn_length(m, current_insn)
    IN
    IF current_insn_length = 0 THEN [res |-> "Err", bb |-> current_bb]
    ELSE
    LET from == get_xrefs_from(xs, current_insn)
        has_fallthrough == \E i \in 1..Len(from) : from[i].typ = Fallthrough
        has_flow_from == \E i \in 1..Len(from) : IsFlow(from[i].typ)
        flow == SelectSeq(from, LAMBDA x : IsFlow(x.typ))
        bb1 == [current_bb EXCEPT
                   !.length = @ + current_insn_length,
                   !.insns = Append(@, current_insn),
                   !.successors = @ \o [i \in 1..Len(flow) |-> flow[i].dst]]
        next_insn == current_insn + current_insn_length
    IN
    IF ~has_fallthrough THEN [res |-> "Ok", bb |-> bb1]
    ELSE IF has_flow_from
    THEN [res |-> "Ok",
          bb |-> [bb1 EXCEPT !.successors = Append(@, next_insn)]]
    ELSE IF has_flow_to(xs, next_insn)
    THEN [res |-> "Ok",
          bb |-> [bb1 EXCEPT !.successors = Append(@, next_insn)]]
    ELSE bb_insns(m, xs, bb1, next_insn)

\* the block of bbs (in insertion order) that starts at addr, 0 when none
BlockIndex(bbs, addr) ==
    IF \E i \in 1..Len(bbs) : bbs[i].addr = addr
    THEN CHOOSE i \in 1..Len(bbs) : bbs[i].addr = addr
    ELSE 0

\* the while loop over the queue of block start addresses
RECURSIVE bb_queue(_, _, _, _)
bb_queue(m, xs, queue, bbs) ==
    IF queue = <<>> THEN [res |-> "Ok", bbs |-> bbs]
    ELSE LET first_insn == Head(queue)
         IN  IF BlockIndex(bbs, first_insn) /= 0
             THEN bb_queue(m, xs, Tail(queue), bbs)
             ELSE LET r == bb_insns(m, xs,
                                    [addr |-> first_insn, length |-> 0,
                                     predecessors |-> <<>>,
                                     successors |-> <<>>, insns |-> <<>>],
                                    first_insn)
                  IN  IF r.res /= "Ok" THEN [res |-> "Err", bbs |-> <<>>]
                      ELSE bb_queue(m, xs, Tail(queue) \o r.bb.successors,
                                    Append(bbs, r.bb))

\* the start addresses of the blocks that list addr as a successor, each
\* block once
RECURSIVE PredecessorsOf_Once(_, _)
PredecessorsOf_Once(bbs, addr) ==
    IF bbs = <<>> THEN <<>>
    ELSE LET bb == Head(bbs)
         IN  (IF \E k \in 1..Len(bb.successors) : bb.successors[k] = addr
              THEN <<bb.addr>> ELSE <<>>)
                 \o PredecessorsOf_Once(Tail(bbs), addr)

\* the start addresses of the blocks that list addr as a successor, once
\* per listing
RECURSIVE PredecessorsOf(_, _)
PredecessorsOf(bbs, addr) ==
    IF bbs = <<>> THEN <<>>
    ELSE LET bb == Head(bbs)
             hits == SelectSeq(bb.successors, LAMBDA d : d = addr)
         IN  [i \in 1..Len(hits) |-> bb.addr] \o PredecessorsOf(Tail(bbs), addr)

\* bbs.values(): the blocks of the HashMap in the iteration order of the
\* map, order being a permutation of the insertion indices
bbs_values(bbs, order) == [i \in 1..Len(bbs) |-> bbs[order[i]]]

\* the iteration orders a HashMap of these blocks can have
ValuesOrders(bbs) == Permutations(1..Len(bbs))

\* the tail of get_basic_blocks: the predecessors are pushed while
\* iterating bbs.values(), and bbs.values() is what is returned; the map
\* is not resized in between, so both iterations see one order
collect_blocks(bbs, order) ==
    LET values == bbs_values(bbs, order)
    IN  [i \in 1..Len(values) |->
            [values[i] EXCEPT !.predecessors =
                PredecessorsOf(values, values[i].addr)]]

\* the results get_basic_blocks(rva) can return: one per iteration order
\* of the HashMap the blocks are kept in
get_basic_blocks(m, xs, rva) ==
    LET r == bb_queue(m, xs, <<rva>>, <<>>)
    IN  IF r.res /= "Ok" THEN {[res |-> "Err", blocks |-> <<>>]}
        ELSE {[res |-> "Ok", blocks |-> collect_blocks(r.bbs, order)] :
                 order \in ValuesOrders(r.bbs)}

(***************************************************************************)
(* Flat images: programs of NOP, RET, JMP, JNZ and CALL instructions, each *)
(* branch aimed at an instruction a few instructions away, encoded to      *)
(* bytes; and the three flat images of the end-to-end scenarios.           *)
(***************************************************************************)
Insn(kind, rel) == [kind |-> kind, rel |-> rel]

\* rel counts instructions: 0 is the instruction itself, 1 the next one
InsnChoices ==
    {Insn("NOP", 0), Insn("RET", 0)}
        \cup {Insn("JMP", rel) : rel \in {2}}
        \cup {Insn("JNZ", rel) : rel \in {-1, 2}}
        \cup {Insn("CALL", rel) : rel \in {1, 2}}

Programs ==
    {prog \in UNION {[1..n -> InsnChoices] : n \in 1..MaxInsns} :
        \A i \in 1..Len(prog) : i + prog[i].rel >= 1}

EncodedLength(kind) ==
    CASE kind \in {"NOP", "RET"} -> 1
      [] kind \in {"JMP", "JNZ"} -> 2
      [] OTHER -> 5

\* the address of instruction i of prog; instruction Len(prog) + 1 is the
\* end of the image
RECURSIVE AddressOf(_, _)
AddressOf(prog, i) ==
    IF i <= 1 THEN 0
    ELSE IF i > Len(prog) + 1
    THEN AddressOf(prog, Len(prog) + 1) + (i - Len(prog) - 1)
    ELSE AddressOf(prog, i - 1) + EncodedLength(prog[i - 1].kind)

EncodeInsn(prog, i) ==
    LET kind == prog[i].kind
        disp == AddressOf(prog, i + prog[i].rel)
                    - (AddressOf(prog, i) + EncodedLength(kind))
        \* byte k of the two's-complement encoding of disp
        byte(k) == (disp \div k) % 256
    IN  CASE kind = "NOP" -> <<144>>
          [] kind = "RET" -> <<195>>
          [] kind = "JMP" -> <<235, byte(1)>>
          [] kind = "JNZ" -> <<117, byte(1)>>
          [] OTHER -> <<232, byte(1), byte(256), byte(65536), byte(16777216)>>

RECURSIVE EncodeFrom(_, _)
EncodeFrom(prog, i) ==
    IF i > Len(prog) THEN <<>>
    ELSE EncodeInsn(prog, i) \o EncodeFrom(prog, i + 1)

Encode(prog) == EncodeFrom(prog, 1)

\* EB FE
Scenario1 == <<235, 254>>

\* 75 02 90 90 C3
Scenario2 == <<117, 2, 144, 144, 195>>

\* E8 00 00 00 00 C3 C3
Scenario3 == <<232, 0, 0, 0, 0, 195, 195>>

\* E8 90 90 90 90 EB FA: the CALL at 0 falls through to the JMP at 5, which
\* jumps to 1, into the CALL; the four NOPs at 1..4 fall through to 5 again
Overlapping == <<232, 144, 144, 144, 144, 235, 250>>

\* 75 00 C3: the JNZ at 0 jumps to 2 and falls through to 2
JumpToNext == <<117, 0, 195>>

FlatImages ==
    {Encode(prog) : prog \in Programs}
        \cup {Scenario1, Scenario2, Scenario3, Overlapping, JumpToNext}

\* the shellcode loader: one RWX section "raw" at base 0 holding the input
FlatModule(image) ==
    [image |-> image,
     tile |-> <<0>>,
     sections |-> <<[addr |-> 0, size |-> Len(image), size31 |-> 0,
                     exec |-> TRUE]>>,
     mapped |-> 0..page(Len(image) - 1)]

\* the instruction starts of a linear sweep of the image
RECURSIVE Sweep(_, _)
Sweep(mod, rva) ==
    IF rva >= Len(mod.image) THEN {}
    ELSE LET r == read_insn(mod, rva)
         IN  IF r.res /= "Ok" THEN {}
             ELSE {rva} \cup Sweep(mod, rva + r.insn.length)

\* the address-space part of the state while only the workspace runs
NoAspace ==
    /\ pages = <<>>
    /\ last = [op |-> "none"]

InitFlow ==
    /\ \E image \in FlatImages :
          /\ module = FlatModule(image)
          /\ meta = [i \in 1..Len(image) |-> 0]
    /\ xrefs = {}
    /\ reply = [op |-> "load", rva |-> 0, res |-> "Ok", blocks |-> <<>>]
    /\ NoAspace
    /\ NoLoad

MakeFunction(rva) ==
    /\ LET r == make_function(module, rva, meta, xrefs)
       IN  /\ meta' = r.meta
           /\ xrefs' = r.xrefs
    /\ reply' = [op |-> "make_function", rva |-> rva, res |-> "Ok",
                 blocks |-> <<>>]
    /\ UNCHANGED <<module, aspaceVars, loadVars>>

GetBasicBlocks(rva) ==
    /\ \E r \in get_basic_blocks(meta, xrefs, rva) :
          reply' = [op |-> "get_basic_blocks", rva |-> rva, res |-> r.res,
                    blocks |-> r.blocks]
    /\ UNCHANGED <<module, meta, xrefs, aspaceVars, loadVars>>

NextFlow ==
    \/ \E rva \in Sweep(module, 0) : MakeFunction(rva)
    \/ \E rva \in Sweep(module, 0) : GetBasicBlocks(rva)

SpecFlow == InitFlow /\ [][NextFlow]_vars

(***************************************************************************)
(* Sectioned images: every subset of the first MaxImagePages pages is      *)
(* mapped by page-sized sections, some of them executable, over a sled of  *)
(* NOP or CALL instructions; and the flat image of scenario 1.             *)
(***************************************************************************)
\* 90, and E8 00 00 00 00
Tiles == {<<144>>, <<232, 0, 0, 0, 0>>}

\* the page indices of set in increasing order
RECURSIVE PageList(_)
PageList(set) ==
    IF set = {} THEN <<>>
    ELSE LET p == CHOOSE p \in set : \A q \in set : p <= q
         IN  <<p>> \o PageList(set \ {p})

SectionedModule(tile, mapped, exec) ==
    LET order == PageList(mapped)
    IN  [image |-> <<>>,
         tile |-> tile,
         sections |-> [i \in 1..Len(order) |->
                          [addr |-> order[i] * PAGE_SIZE,
                           size |-> PAGE_SIZE, size31 |-> 0,
                           exec |-> order[i] \in exec]],
         mapped |-> mapped]

SectionedModules ==
    {SectionedModule(tile, mapped, exec) :
        tile \in Tiles,
        mapped \in (SUBSET (0..(MaxImagePages - 1))) \ {{}},
        exec \in SUBSET (0..(MaxImagePages - 1))}

\* the rvas read_insn is called with: page starts and the last bytes of
\* each page
ReadInsnArgs ==
    {n * PAGE_SIZE : n \in 0..MaxImagePages}
        \cup {n * PAGE_SIZE - k : n \in 1..MaxImagePages, k \in {1, 2, 5, 15, 16}}

ProbeRvas == {0, 1, PAGE_SIZE}

ProbeLengths ==
    {1, 2, PAGE_SIZE - 1, PAGE_SIZE, PAGE_SIZE + 1,
     2 * PAGE_SIZE, 2 * PAGE_SIZE + 1}

\* Permissions::R, X and RX
ProbePerms == {{"R"}, {"X"}, {"R", "X"}}

\* one executable section at 0 whose size is 0x8000_0000, with its first
\* page mapped
HugeSectionModules ==
    {[image |-> <<>>,
      tile |-> tile,
      sections |-> <<[addr |-> 0, size |-> 0, size31 |-> 1, exec |-> TRUE]>>,
      mapped |-> {0}] : tile \in Tiles}

InitWorkspace ==
    /\ module \in SectionedModules \cup HugeSectionModules
                     \cup {FlatModule(Scenario1)}
    /\ meta = <<>>
    /\ xrefs = {}
    /\ reply = [op |-> "load", rva |-> 0, length |-> 0, perms |-> {},
                res |-> "Ok", buflen |-> -1, insn |-> NoInsn]
    /\ NoAspace
    /\ NoLoad

WorkspaceProbe(rva, length, perms) ==
    /\ reply' = [op |-> "probe", rva |-> rva, length |-> length,
                 perms |-> perms,
                 res |-> IF Workspace_probe(module, rva, length, perms)
                         THEN "true" ELSE "false",
                 buflen |-> -1, insn |-> NoInsn]
    /\ UNCHANGED <<module, meta, xrefs, aspaceVars, loadVars>>

ReadInsn(rva) ==
    /\ LET r == read_insn(module, rva)
       IN  reply' = [op |-> "read_insn", rva |-> rva, length |-> 0,
                     perms |-> {}, res |-> r.res, buflen |-> r.buflen,
                     insn |-> r.insn]
    /\ UNCHANGED <<module, meta, xrefs, aspaceVars, loadVars>>

ReadUtf8(rva) ==
    /\ LET r == read_utf8(module, rva)
       IN  reply' = [op |-> "read_utf8", rva |-> rva, length |-> 0,
                     perms |-> {}, res |-> r.res, buflen |-> -1,
                     insn |-> NoInsn, str |-> r.str]
    /\ UNCHANGED <<module, meta, xrefs, aspaceVars, loadVars>>

NextWorkspace ==
    \/ \E rva \in ProbeRvas, length \in ProbeLengths, perms \in ProbePerms :
          WorkspaceProbe(rva, length, perms)
    \/ \E rva \in ReadInsnArgs : ReadInsn(rva)
    \/ \E rva \in ProbeRvas : ReadUtf8(rva)

SpecWorkspace == InitWorkspace /\ [][NextWorkspace]_vars

(***************************************************************************)
(* Properties of the address space.                                        *)
(***************************************************************************)
\* page index p is a mapped page of the address space
Mapped(pgs, p) == p < NumSlots(pgs) /\ is_some(Slot(pgs, p))

\* every page overlapping [start, end) is mapped
RangeMapped(pgs, start, end) ==
    \A p \in page(start)..(page(end - 1)) : start < end => Mapped(pgs, p)

\* the elements at [start, end) in address order, read one by one
RECURSIVE Elements(_, _, _)
Elements(pgs, start, end) ==
    IF start >= end THEN <<>>
    ELSE LET stop == IF page(start) = page(end) THEN end
                     ELSE (page(start) + 1) * PAGE_SIZE
         IN  SubSeq(Slot(pgs, page(start)), page_offset(start) + 1,
                    page_offset(start) + (stop - start))
             \o Elements(pgs, stop, end)

\* C1: after map / map_empty calls that returned Ok, reading the addresses
\* a call covered returns the elements the most recent such call supplied:
\* right after map(r, B) returned Ok, get at each address of [r, r + |B|)
\* returns the element of B for it and slice(r, r + |B|) returns B.
C1_RoundTrip ==
    (last.op \in {"map", "map_empty"} /\ last.res = "Ok") =>
        /\ slice(pages, last.a, last.a + last.b)
               = [res |-> "Ok", val |-> Items(last.tag, last.b)]
        /\ \A a \in ReadAddrs :
               (last.a <= a /\ a < last.a + last.b) =>
                   get(pages, a) = [res |-> "Some",
                                    val |-> <<Fill(last.tag, a - last.a + 1)>>]

\* C2: whenever slice(a, b) succeeds and m is page-aligned with
\* a <= m <= b, slice(a, m) and slice(m, b) succeed and their
\* concatenation is slice(a, b).
C2_SliceSplitsAtPage ==
    \A a \in ReadAddrs, b \in ReadAddrs, m \in ReadAddrs :
        (a <= m /\ m <= b /\ page_offset(m) = 0
            /\ slice(pages, a, b).res = "Ok") =>
                /\ slice(pages, a, m).res = "Ok"
                /\ slice(pages, m, b).res = "Ok"
                /\ slice(pages, a, b).val
                       = slice(pages, a, m).val \o slice(pages, m, b).val

\* C3: slice(start, end) with start <= end returns NotMapped whenever a
\* page overlapping [start, end) is unmapped.
C3_SliceNotMapped ==
    \A a \in ReadAddrs, b \in ReadAddrs :
        (a <= b /\ ~RangeMapped(pages, a, b)) =>
            slice(pages, a, b).res = "NotMapped"

\* C4: when end is on a page boundary and every page overlapping
\* [start, end) is mapped, slice(start, end) succeeds with the end - start
\* elements in address order, whatever the state of the page at end.
C4_SliceToPageEnd ==
    \A a \in ReadAddrs, b \in ReadAddrs :
        (a <= b /\ page_offset(b) = 0 /\ RangeMapped(pages, a, b)) =>
            /\ slice(pages, a, b).res = "Ok"
            /\ Len(slice(pages, a, b).val) = b - a
            /\ slice(pages, a, b).val = Elements(pages, a, b)

\* C5: for an rva whose page index is at or beyond the number of page
\* slots, probe returns false, get returns None and map returns NotMapped.
C5_BeyondCapacity ==
    \A rva \in MapRvas :
        (page_offset(rva) = 0 /\ page(rva) >= NumSlots(pages)) =>
            /\ probe(pages, rva).res = "false"
            /\ get(pages, rva).res = "None"
            /\ map(pages, rva, Items(1, PAGE_SIZE)).res = "NotMapped"

\* C6: map panics on every call whose rva is not page-aligned or whose
\* items length is not a multiple of the page size.
C6_MapRejectsInvalid ==
    (/\ last.op \in {"map", "map_empty"}
     /\ (page_offset(last.a) /= 0 \/ last.b % PAGE_SIZE /= 0)) =>
        last.res = "panic"

(***************************************************************************)
(* Properties of the workspace reads.                                      *)
(***************************************************************************)
\* every address of [rva, rva + length) is on a mapped page
WholeRangeMapped(mod, rva, length) ==
    \A p \in page(rva)..page(rva + length - 1) : p \in mod.mapped

\* every address of [rva, rva + length) is on a page that has flow metadata
WholeRangeExecutable(mod, rva, length) ==
    \A p \in page(rva)..page(rva + length - 1) :
        get_meta_is_some(mod, p * PAGE_SIZE)

\* C7: Workspace::probe(rva, length, perms) is true exactly when the whole
\* range [rva, rva + length) is mapped (perms with R) and lies in the
\* executable regions (perms with X).
C7_ProbeWholeRange ==
    reply.op = "probe" =>
        (reply.res = "true" <=>
            /\ "R" \in reply.perms =>
                   WholeRangeMapped(module, reply.rva, reply.length)
            /\ "X" \in reply.perms =>
                   WholeRangeExecutable(module, reply.rva, reply.length))

\* the number of mapped bytes from rva on, up to the first unmapped page
RECURSIVE MappedRun(_, _)
MappedRun(mod, rva) ==
    IF page(rva) \notin mod.mapped THEN 0
    ELSE LET stop == (page(rva) + 1) * PAGE_SIZE
         IN  (stop - rva) + MappedRun(mod, stop)

Min(a, b) == IF a <= b THEN a ELSE b

\* C8: read_insn(rva) returns InvalidAddress when rva is not mapped; when
\* rva is mapped the decoder gets the longest mapped run of bytes at rva,
\* at least 1 and at most 15 bytes; the decoder never gets an empty buffer.
C8_ReadInsn ==
    reply.op = "read_insn" =>
        /\ page(reply.rva) \notin module.mapped => reply.res = InvalidAddress
        /\ page(reply.rva) \in module.mapped =>
               /\ reply.buflen = Min(MAX_INSN_BUF - 1, MappedRun(module, reply.rva))
               /\ reply.buflen >= 1
        /\ reply.buflen /= 0

(***************************************************************************)
(* Properties of the basic blocks.                                         *)
(***************************************************************************)
SeqToSet(seq) == {seq[i] : i \in 1..Len(seq)}

\* the instruction sets of the blocks of the last get_basic_blocks
BlockInsnSets == {SeqToSet(reply.blocks[i].insns) : i \in 1..Len(reply.blocks)}

\* get_basic_blocks(0) has answered on the image 75 02 90 90 C3 after
\* make_function(0)
Scenario2Answered ==
    /\ module.image = Scenario2
    /\ meta[1] /= 0
    /\ reply.op = "get_basic_blocks"
    /\ reply.rva = 0

\* C9 as claimed: on 75 02 90 90 C3, after make_function(0), the xrefs from
\* 0 are ConditionalJump to 4 and Fallthrough to 2 and get_basic_blocks(0)
\* returns exactly the blocks {0} and {2, 3, 4}.
C9_Scenario2Blocks ==
    Scenario2Answered =>
        /\ {x \in xrefs : x.src = 0}
               = {Xref(0, 4, ConditionalJump), Xref(0, 2, Fallthrough)}
        /\ reply.res = "Ok"
        /\ BlockInsnSets = {{0}, {2, 3, 4}}

\* C9 amended: on 75 02 90 90 C3, after make_function(0), the xrefs from 0
\* are ConditionalJump to 4 and Fallthrough to 2 and get_basic_blocks(0)
\* returns exactly the blocks {0}, {2, 3} and {4}: the block at 2 ends
\* before the join point 4, which is its only successor, and the RET at 4
\* is a block of its own.
C9_Scenario2BlocksSplitAtJoin ==
    Scenario2Answered =>
        /\ {x \in xrefs : x.src = 0}
               = {Xref(0, 4, ConditionalJump), Xref(0, 2, Fallthrough)}
        /\ reply.res = "Ok"
        /\ BlockInsnSets = {{0}, {2, 3}, {4}}
        /\ \A i \in 1..Len(reply.blocks) :
               /\ reply.blocks[i].addr = 0 =>
                      SeqToSet(reply.blocks[i].successors) = {2, 4}
               /\ reply.blocks[i].addr = 2 =>
                      SeqToSet(reply.blocks[i].successors) = {4}
               /\ reply.blocks[i].addr = 4 =>
                      reply.blocks[i].successors = <<>>

C9_Witness ==
    /\ Scenario2Answered
    /\ reply.res = "Ok"
    /\ Len(reply.blocks) = 3

\* the successors the rule gives a block whose last instruction is at rva
\* and is len bytes long
RuleSuccessors(rva, len) ==
    LET jumps == {x \in xrefs : /\ x.src = rva
                                /\ x.typ \in {UnconditionalJump,
                                              ConditionalJump,
                                              ConditionalMove}}
        falls == \E x \in xrefs : x.src = rva /\ x.typ = Fallthrough
        joins == \E x \in xrefs : /\ x.dst = rva + len
                                  /\ x.typ \in {UnconditionalJump,
                                                ConditionalJump,
                                                ConditionalMove}
    IN  {x.dst : x \in jumps}
            \cup (IF falls /\ (jumps /= {} \/ joins) THEN {rva + len} ELSE {})

\* C10: in every block get_basic_blocks returns, the successors are the
\* destinations of the jump and conditional-move xrefs from the last
\* instruction, plus the fallthrough address exactly when that instruction
\* branches or the fallthrough address is a join point; an instruction
\* with only Call and Fallthrough xrefs whose fallthrough address is no
\* join point is never the last of a block; on E8 00 00 00 00 C3 C3 the
\* answer for 0 is the one block {0, 5} without successors.
C10_Successors ==
    (reply.op = "get_basic_blocks" /\ reply.res = "Ok") =>
        /\ \A i \in 1..Len(reply.blocks) :
               LET bb == reply.blocks[i]
                   tail == bb.insns[Len(bb.insns)]
               IN  /\ bb.insns /= <<>>
                   /\ SeqToSet(bb.successors)
                          = RuleSuccessors(tail, meta[tail + 1])
                   /\ \A k \in 1..Len(bb.insns) :
                          LET rva == bb.insns[k]
                          IN  (/\ \E x \in xrefs : x.src = rva /\ x.typ = Call
                               /\ \E x \in xrefs :
                                      x.src = rva /\ x.typ = Fallthrough
                               /\ RuleSuccessors(rva, meta[rva + 1]) = {})
                                  => k < Len(bb.insns)
        /\ (module.image = Scenario3 /\ reply.rva = 0) =>
               /\ Len(reply.blocks) = 1
               /\ reply.blocks[1].insns = <<0, 5>>
               /\ reply.blocks[1].successors = <<>>
               /\ \A i \in 1..Len(reply.blocks) : reply.blocks[i].addr /= 6

C10_Witness ==
    /\ module.image = Scenario3
    /\ reply.op = "get_basic_blocks"
    /\ reply.rva = 0
    /\ reply.res = "Ok"
    /\ Xref(0, 5, Call) \in xrefs
    /\ reply.blocks[1].insns = <<0, 5>>

\* the addresses reachable from the addresses of set along Fallthrough and
\* jump xrefs
RECURSIVE ReachableFrom(_)
ReachableFrom(set) ==
    LET more == {x.dst : x \in {y \in xrefs : y.src \in set /\ y.typ /= Call}}
    IN  IF more \subseteq set THEN set ELSE ReachableFrom(set \cup more)

\* the blocks of the last get_basic_blocks start at distinct addresses
DistinctStarts ==
    \A i, j \in 1..Len(reply.blocks) :
        i /= j => reply.blocks[i].addr /= reply.blocks[j].addr

\* no instruction address is in two blocks
DisjointBlocks ==
    \A i, j \in 1..Len(reply.blocks) :
        i /= j => SeqToSet(reply.blocks[i].insns)
                      \cap SeqToSet(reply.blocks[j].insns) = {}

\* the blocks hold the instructions reachable from the entry
BlocksCoverReachable ==
    UNION BlockInsnSets = ReachableFrom({reply.rva})

\* C11: the blocks get_basic_blocks(entry) returns have pairwise distinct
\* start addresses, no instruction address is in two blocks, and the union
\* of their instruction lists is the set of instructions reachable from
\* entry along fallthrough and jump xrefs.
C11_BlockPartition ==
    (reply.op = "get_basic_blocks" /\ reply.res = "Ok") =>
        /\ DistinctStarts
        /\ DisjointBlocks
        /\ BlocksCoverReachable

JumpTypes == {UnconditionalJump, ConditionalJump, ConditionalMove}

\* rva has a Fallthrough xref-from; a jump or conditional-move xref-from
FallsThrough(rva) == \E x \in xrefs : x.src = rva /\ x.typ = Fallthrough
Branches(rva) == \E x \in xrefs : x.src = rva /\ x.typ \in JumpTypes

\* the instructions of bb but the last fall through and do not branch
InnerFallThrough(bb) ==
    \A k \in 1..(Len(bb.insns) - 1) :
        FallsThrough(bb.insns[k]) /\ ~Branches(bb.insns[k])

\* C25 as claimed: in every block each instruction but the last falls
\* through and does not branch, no instruction but the first has an xref-to
\* other than Fallthrough (a Call xref-to included), and the last
\* instruction does not fall through, or branches, or falls through to an
\* address with an xref-to other than Fallthrough.
C25_BlockShape ==
    (reply.op = "get_basic_blocks" /\ reply.res = "Ok") =>
        \A i \in 1..Len(reply.blocks) :
            LET bb == reply.blocks[i]
                tail == bb.insns[Len(bb.insns)]
            IN  /\ bb.insns /= <<>>
                /\ InnerFallThrough(bb)
                /\ \A k \in 2..Len(bb.insns) :
                       \A x \in xrefs :
                           x.dst = bb.insns[k] => x.typ = Fallthrough
                /\ \/ ~FallsThrough(tail)
                   \/ Branches(tail)
                   \/ \E x \in xrefs : /\ x.dst = tail + meta[tail + 1]
                                        /\ x.typ /= Fallthrough

\* C25 amended: in every block each instruction but the last falls through
\* and does not branch, no instruction but the first has a jump or
\* conditional-move xref-to (it may have a Call xref-to), and the last
\* instruction does not fall through, or branches, or falls through to an
\* address with a jump or conditional-move xref-to.
C25_BlockShapeJumpsOnly ==
    (reply.op = "get_basic_blocks" /\ reply.res = "Ok") =>
        \A i \in 1..Len(reply.blocks) :
            LET bb == reply.blocks[i]
                tail == bb.insns[Len(bb.insns)]
            IN  /\ bb.insns /= <<>>
                /\ InnerFallThrough(bb)
                /\ \A k \in 2..Len(bb.insns) :
                       \A x \in xrefs :
                           x.dst = bb.insns[k] => x.typ \notin JumpTypes
                /\ \/ ~FallsThrough(tail)
                   \/ Branches(tail)
                   \/ \E x \in xrefs : /\ x.dst = tail + meta[tail + 1]
                                        /\ x.typ \in JumpTypes

\* get_basic_blocks has returned a block of three instructions or more
\* whose second instruction is the target of a call
C25_Witness ==
    /\ reply.op = "get_basic_blocks"
    /\ reply.res = "Ok"
    /\ \E i \in 1..Len(reply.blocks) :
           /\ Len(reply.blocks[i].insns) >= 3
           /\ \E x \in xrefs : /\ x.dst = reply.blocks[i].insns[2]
                                /\ x.typ = Call


(***************************************************************************)
(* WorkspaceBuilder::load: the analyzer loop.  Every analyzer is the list  *)
(* of workspace calls it makes, in the order it makes them, each with what *)
(* the analyzer does when the call returns Err: "?" returns the error to   *)
(* load, "unwrap" panics.  Two steps are not workspace calls that return a *)
(* Result: the match on Object::parse of the entry point analyzer, whose   *)
(* other arm is a panic!, and the filters of the relocation analyzer,      *)
(* where is_in_insn subtracts 0x10 from a usize ("underflow": a panic in a *)
(* debug build, a loop that does not come back in a release build).  And   *)
(* get_relocs has a third way to end besides Ok and Err: its block loop    *)
(* does not advance over a block whose size is 1, 2 or 3, and then the     *)
(* call never returns.                                                     *)
(***************************************************************************)

MaxAnalyzers == 2

MaxSeeds == 2

AnalyzerKinds == {"EntryPointAnalyzer", "RelocAnalyzer", "FlirtAnalyzer"}

Step(op, on_err) == [op |-> op, on_err |-> on_err]

RECURSIVE Repeat(_, _)
Repeat(s, n) == IF n = 0 THEN <<>> ELSE s \o Repeat(s, n - 1)

\* the buffer parses as a PE or the analyzer panics; then the three calls
EntryPointAnalyzer_analyze ==
    <<Step("Object::parse", "panic"), Step("make_symbol", "?"),
      Step("make_function", "?"), Step("analyze", "?")>>

\* the calls that can loop for ever: get_relocs, on a block of the
\* directory with block_size / 4 = 0 (index += 0)
may_not_return(call) == call.op = "get_relocs"

\* n is the number of relocation targets that pass the filters
RelocAnalyzer_analyze(n) ==
    <<Step("get_relocs", "?"), Step("is_in_insn", "underflow")>>
        \o Repeat(<<Step("make_insn", "unwrap"), Step("analyze", "unwrap")>>, n)

\* n is the number of functions with an unambiguous signature match
FlirtAnalyzer_analyze(n) ==
    Repeat(<<Step("make_symbol", "unwrap")>>, n) \o <<Step("analyze", "?")>>

Analyzer_analyze(kind, n) ==
    CASE kind = "EntryPointAnalyzer" -> EntryPointAnalyzer_analyze
      [] kind = "RelocAnalyzer" -> RelocAnalyzer_analyze(n)
      [] kind = "FlirtAnalyzer" -> FlirtAnalyzer_analyze(n)

\* the worklist of pending seeds after a workspace call that returned Ok:
\* make_function and make_insn add a seed, analyze runs to the fixed point
WorklistAfter(op, worklist) ==
    CASE op \in {"make_function", "make_insn"} -> worklist + 1
      [] op = "analyze" -> 0
      [] OTHER -> worklist

\* the worklists a workspace call that returned Err can leave.  Neither
\* the sources at hand nor the specification say what a failing call has
\* done to the worklist, so every possibility is kept: a failing analyze
\* has taken any number of the pending seeds, a failing make_function or
\* make_insn has queued its seed or not
WorklistAfterErr(op, worklist) ==
    CASE op = "analyze" -> 0..worklist
      [] op \in {"make_function", "make_insn"} -> {worklist, worklist + 1}
      [] OTHER -> {worklist}

AnalyzerLists ==
    UNION {[1..n -> AnalyzerKinds] : n \in 0..MaxAnalyzers}

NoFlow ==
    /\ module = [image |-> <<>>, tile |-> <<0>>, sections |-> <<>>, mapped |-> {}]
    /\ meta = <<>>
    /\ xrefs = {}
    /\ reply = [op |-> "none"]

InitLoad ==
    /\ NoAspace
    /\ NoFlow
    /\ relocs = [op |-> "none"]
    /\ flirt = [op |-> "none"]
    /\ \E with_loader \in BOOLEAN, should_analyze \in BOOLEAN,
          strict_mode \in BOOLEAN :
          build = [op |-> "load",
                   with_loader |-> with_loader,
                   loaded |-> FALSE,
                   analyzers |-> <<>>,
                   should_analyze |-> should_analyze,
                   strict_mode |-> strict_mode,
                   index |-> 0,
                   active |-> FALSE,
                   script |-> <<>>,
                   ran |-> <<>>,
                   outcomes |-> <<>>,
                   warnings |-> 0,
                   worklist |-> 0,
                   seeded |-> 0,
                   result |-> "running"]

Loading == build.op = "load" /\ build.result = "running"

\* load's handling of what analyzer.analyze(&mut ws) returned
AnalyzerReturned(b, res) ==
    [b EXCEPT !.active = FALSE,
              !.script = <<>>,
              !.outcomes = Append(@, res),
              !.warnings = IF res = "Err" THEN @ + 1 ELSE @,
              !.result = IF res = "Err" /\ b.strict_mode THEN "Err" ELSE @]

\* the loader the user provided (ldr.load(..)?) or the default detected
\* one (loader::load(..)?) returns the module and its analyzers, or an
\* error that load returns as its own
LoaderLoad(ok, analyzers) ==
    /\ Loading
    /\ ~build.loaded
    /\ build' = IF ok
                THEN [build EXCEPT !.loaded = TRUE, !.analyzers = analyzers]
                ELSE [build EXCEPT !.result = "Err"]
    /\ UNCHANGED <<aspaceVars, wsVars, relocs, flirt>>

\* the for loop of load takes the next analyzer
RunAnalyzer(n) ==
    /\ Loading
    /\ build.loaded
    /\ build.should_analyze
    /\ ~build.active
    /\ build.index < Len(build.analyzers)
    /\ build' = [build EXCEPT !.index = @ + 1,
                              !.active = TRUE,
                              !.ran = Append(@, build.index + 1),
                              !.script = Analyzer_analyze(build.analyzers[build.index + 1], n)]
    /\ UNCHANGED <<aspaceVars, wsVars, relocs, flirt>>

\* the running analyzer takes its next step, which goes well, fails or
\* does not come back
AnalyzerCall(outcome, profile) ==
    /\ Loading
    /\ build.active
    /\ build.script /= <<>>
    /\ outcome = "NoReturn" => may_not_return(Head(build.script))
    /\ \E left \in WorklistAfterErr(Head(build.script).op, build.worklist) :
       LET call == Head(build.script)
           ok == outcome = "Ok"
       IN  build' =
               IF outcome = "NoReturn"
               THEN [build EXCEPT !.active = FALSE, !.result = "diverges"]
               ELSE IF ok
               THEN [build EXCEPT !.script = Tail(@),
                                  !.worklist = WorklistAfter(call.op, @),
                                  !.seeded = @ + WorklistAfter(call.op, 0)]
               ELSE IF call.on_err \in {"unwrap", "panic"}
               THEN [build EXCEPT !.worklist = left,
                                  !.active = FALSE,
                                  !.result = "panic"]
               ELSE IF call.on_err = "underflow"
               THEN [build EXCEPT !.active = FALSE,
                                  !.result = IF profile = "debug" THEN "panic"
                                             ELSE "diverges"]
               ELSE AnalyzerReturned([build EXCEPT !.worklist = left], "Err")
    /\ UNCHANGED <<aspaceVars, wsVars, relocs, flirt>>

\* the running analyzer reaches its Ok(())
AnalyzerOk ==
    /\ Loading
    /\ build.active
    /\ build.script = <<>>
    /\ build' = AnalyzerReturned(build, "Ok")
    /\ UNCHANGED <<aspaceVars, wsVars, relocs, flirt>>

\* load reaches its Ok(ws)
LoadOk ==
    /\ Loading
    /\ build.loaded
    /\ ~build.active
    /\ ~build.should_analyze \/ build.index = Len(build.analyzers)
    /\ build' = [build EXCEPT !.result = "Ok"]
    /\ UNCHANGED <<aspaceVars, wsVars, relocs, flirt>>

NextLoad ==
    \/ \E ok \in BOOLEAN, analyzers \in AnalyzerLists : LoaderLoad(ok, analyzers)
    \/ \E n \in 0..MaxSeeds : RunAnalyzer(n)
    \/ \E outcome \in {"Ok", "Err", "NoReturn"},
          profile \in {"debug", "release"} :
          AnalyzerCall(outcome, profile)
    \/ AnalyzerOk
    \/ LoadOk

SpecLoad == InitLoad /\ [][NextLoad]_vars

FirstErr ==
    CHOOSE i \in 1..Len(build.outcomes) :
        /\ build.outcomes[i] = "Err"
        /\ \A j \in 1..(i - 1) : build.outcomes[j] /= "Err"

\* C12: when load has ended after the loader returned the module and its
\* analyzers, with analysis enabled: with strict mode off it
\* has returned Ok, every analyzer of the list has run and each analyzer
\* error was logged, and the process was not terminated by a panic; with
\* strict mode on and an analyzer error, load has returned Err and the
\* failing analyzer is the last one that ran.
C12_AnalyzerFailure ==
    (/\ build.op = "load"
     /\ build.result /= "running"
     /\ build.loaded
     /\ build.should_analyze) =>
        /\ ~build.strict_mode =>
               /\ build.result = "Ok"
               /\ build.ran = [i \in 1..Len(build.analyzers) |-> i]
               /\ build.warnings = Cardinality({i \in 1..Len(build.outcomes) : build.outcomes[i] = "Err"})
        /\ (build.strict_mode /\ \E i \in 1..Len(build.outcomes) : build.outcomes[i] = "Err") =>
               /\ build.result = "Err"
               /\ Len(build.ran) = FirstErr


\* C13: the analyzers that have started are the first ones of the loader's
\* list, in its order; at most the last of them has not finished; the
\* worklist is empty whenever every started analyzer has finished; and no
\* analyzer starts when analysis is disabled.  Whether the worklist is
\* empty after an analyzer that returned Err depends on what a failing
\* make_function or analyze leaves queued, which is not known.
C13_SequentialDrained ==
    build.op = "load" =>
        /\ Len(build.ran) <= Len(build.analyzers)
        /\ build.ran = [i \in 1..Len(build.ran) |-> i]
        /\ Len(build.outcomes) \in {Len(build.ran), Len(build.ran) - 1}
        /\ build.active => Len(build.outcomes) = Len(build.ran) - 1
        /\ Len(build.outcomes) = Len(build.ran) => build.worklist = 0
        /\ ~build.should_analyze => build.ran = <<>>

\* the part of C13 about the loop of load: one analyzer at a time, in the
\* order of the list, none when analysis is disabled
C13_Sequential ==
    build.op = "load" =>
        /\ Len(build.ran) <= Len(build.analyzers)
        /\ build.ran = [i \in 1..Len(build.ran) |-> i]
        /\ Len(build.outcomes) \in {Len(build.ran), Len(build.ran) - 1}
        /\ build.active => Len(build.outcomes) = Len(build.ran) - 1
        /\ ~build.should_analyze => build.ran = <<>>

\* the part of C13 about the worklist, for the analyzers that returned Ok:
\* as long as every analyzer that has finished returned Ok, the worklist
\* is empty whenever none is running
C13_DrainedAfterOk ==
    (/\ build.op = "load"
     /\ Len(build.outcomes) = Len(build.ran)
     /\ \A i \in 1..Len(build.outcomes) : build.outcomes[i] = "Ok") =>
        build.worklist = 0

C13_Witness ==
    /\ build.op = "load"
    /\ build.result = "Ok"
    /\ Len(build.analyzers) = 2
    /\ build.ran = <<1, 2>>
    /\ Len(build.outcomes) = 2
    /\ build.seeded >= 2


(***************************************************************************)
(* The PE relocation analyzer: core/src/analysis/pe/relocs.rs.             *)
(*                                                                         *)
(* relocs = [entries, op, res, ...]                                        *)
(*   entries  the u32 values of the base-relocation directory, as          *)
(*            get_relocs reads them with chunks_exact(4)                   *)
(*   op, res  the last call and what it returned                           *)
(* The workspace is module and meta; pointers are 32 bits wide (X32).      *)
(***************************************************************************)

MaxRelocEntries == 2

\* module.base_address of the relocated image
BaseAddress == 4096

\* a 16-bit relocation entry: type << 12 | offset
Word(typ, offset) == typ * 4096 + offset

\* a 32-bit directory entry holding two relocation entries
Entry(m, n) == n * 65536 + m

HIGHLOW == 3

DIR64 == 10

\* Workspace::read_u32: four bytes, little endian
read_u32(mod, rva) ==
    LET r == address_space_slice_into(mod, rva, 4)
    IN  IF r.res = "Ok"
        THEN [res |-> "Ok",
              val |-> r.val[1] + 256 * r.val[2] + 65536 * r.val[3]
                          + 16777216 * r.val[4]]
        ELSE [res |-> InvalidAddress, val |-> 0]

\* Workspace::read_va for Arch::X32
read_va(mod, rva) == read_u32(mod, rva)

\* Workspace::rva: -1 for None
NoRva == 0 - 1

Workspace_rva(va) == IF va < BaseAddress THEN NoRva ELSE va - BaseAddress

\* the half-open range start..end of usize
UsizeRange(start, end) == {i \in start..(end - 1) : TRUE}

\* is_in_insn: the subtraction start - 0x10 underflows for rva < 0x10; a
\* debug build panics there, a release build wraps around and walks down
\* from 2^64 - 0x10 + rva, which does not return
is_in_insn(m, rva, profile) ==
    LET start == rva
        end == start - 16
    IN  IF end < 0
        THEN IF profile = "debug" THEN "panic" ELSE "diverges"
        ELSE IF \E i \in UsizeRange(start, end) :
                    get_insn_length(m, i) /= 0 /\ i + get_insn_length(m, i) > rva
             THEN "true" ELSE "false"

is_ptr(mod, rva) ==
    LET ptr == read_va(mod, rva)
    IN  IF ptr.res = "Ok" /\ Workspace_rva(ptr.val) /= NoRva
        THEN Workspace_probe(mod, Workspace_rva(ptr.val), 1, {"R"})
        ELSE FALSE

is_zero(mod, rva) ==
    LET v == read_u32(mod, rva)
    IN  IF v.res = "Ok" THEN v.val = 0 ELSE FALSE

\* parse_reloc: types 0 to 10 are known, any other type is an error
parse_reloc(base, entry) ==
    LET reloc_type == entry \div 4096
        reloc_offset == entry % 4096
    IN  IF reloc_type > 10
        THEN [res |-> "InvalidRelocType", typ |-> reloc_type, offset |-> 0]
        ELSE [res |-> "Ok", typ |-> reloc_type, offset |-> base + reloc_offset]

split_u32(e) == <<e % 65536, e \div 65536>>

\* entries.get(i), 0 based: -1 for None
EntriesGet(entries, i) == IF i < Len(entries) THEN entries[i + 1] ELSE 0 - 1

\* the two relocations of one directory entry: <<how the loop goes on, ret>>
chunk_entry(mod, page_rva, entry, ret) ==
    LET mn == split_u32(entry)
        reloc1 == parse_reloc(page_rva, mn[1])
        reloc2 == parse_reloc(page_rva, mn[2])
    IN  IF reloc1.res /= "Ok" THEN <<"Err", ret>>
        ELSE IF ~Workspace_probe(mod, reloc1.offset, 4, {"R"}) THEN <<"break", ret>>
        ELSE IF reloc2.res /= "Ok" THEN <<"Err", Append(ret, reloc1)>>
        ELSE IF ~Workspace_probe(mod, reloc2.offset, 4, {"R"})
             THEN <<"break", Append(ret, reloc1)>>
        ELSE <<"next", Append(Append(ret, reloc1), reloc2)>>

\* for i in 2..chunk_entries_count
RECURSIVE chunk_entries(_, _, _, _, _, _, _)
chunk_entries(mod, entries, index, i, chunk_entries_count, page_rva, ret) ==
    IF i >= chunk_entries_count THEN <<"Ok", ret>>
    ELSE IF EntriesGet(entries, index + i) = 0 - 1 THEN <<"Ok", ret>>
    ELSE LET r == chunk_entry(mod, page_rva, EntriesGet(entries, index + i), ret)
         IN  IF r[1] = "Err" THEN r
             ELSE IF r[1] = "break" THEN <<"Ok", r[2]>>
             ELSE chunk_entries(mod, entries, index, i + 1,
                                chunk_entries_count, page_rva, r[2])

\* the block loop of get_relocs
RECURSIVE get_relocs_loop(_, _, _, _)
get_relocs_loop(mod, entries, index, ret) ==
    LET page_rva == EntriesGet(entries, index)
        block_size == EntriesGet(entries, index + 1)
    IN  IF page_rva = 0 \/ block_size = 0 \/ page_rva = 0 - 1 \/ block_size = 0 - 1
        THEN [res |-> "Ok", ret |-> ret]
        ELSE LET chunk_entries_count == block_size \div 4
                 r == chunk_entries(mod, entries, index, 2, chunk_entries_count,
                                    page_rva, ret)
             IN  IF r[1] = "Err" THEN [res |-> "Err", ret |-> <<>>]
                 ELSE IF chunk_entries_count = 0
                 THEN [res |-> "diverges", ret |-> <<>>]
                 ELSE get_relocs_loop(mod, entries, index + chunk_entries_count, r[2])

get_relocs(mod, entries) == get_relocs_loop(mod, entries, 0, <<>>)

sections_contain(mod, rva) == InExecutableSection(mod, rva)

\* the relocations RelocAnalyzer::analyze keeps
SupportedRelocs(ret) ==
    {ret[i].offset : i \in {j \in 1..Len(ret) : ret[j].typ \in {HIGHLOW, DIR64}}}

\* unique_targets
unique_targets(mod, sites) ==
    {Workspace_rva(read_va(mod, site).val) :
        site \in {x \in sites : /\ read_va(mod, x).res = "Ok"
                                /\ Workspace_rva(read_va(mod, x).val) /= NoRva}}

\* every order a HashSet of rvas can be iterated in
RECURSIVE Orders(_)
Orders(set) ==
    IF set = {} THEN {<<>>}
    ELSE UNION {{<<x>> \o rest : rest \in Orders(set \ {x})} : x \in set}

\* make_insn(rva) and analyze() for the first rva of order only
seed_all_FirstOnly(mod, order, m, xs) ==
    IF order = <<>> THEN [meta |-> m, xrefs |-> xs]
    ELSE analyze(mod, <<Head(order)>>, m, xs)

\* make_insn(rva) and analyze() for every rva of order
RECURSIVE seed_all(_, _, _, _)
seed_all(mod, order, m, xs) ==
    IF order = <<>> THEN [meta |-> m, xrefs |-> xs]
    ELSE LET a == analyze(mod, <<Head(order)>>, m, xs)
         IN  seed_all(mod, Tail(order), a.meta, a.xrefs)

\* RelocAnalyzer::analyze up to the collect() of the targets to seed
reloc_targets(mod, m, entries, profile) ==
    LET r == get_relocs(mod, entries)
        in_x == {t \in unique_targets(mod, SupportedRelocs(r.ret)) :
                    sections_contain(mod, t)}
        warned == Cardinality({j \in 1..Len(r.ret) :
                                  r.ret[j].typ \notin {HIGHLOW, DIR64}})
    IN  IF r.res /= "Ok" THEN [res |-> r.res, o |-> {}, warned |-> 0]
        ELSE IF \E t \in in_x : is_in_insn(m, t, profile) \notin {"true", "false"}
        THEN [res |-> is_in_insn(m, CHOOSE t \in in_x :
                          is_in_insn(m, t, profile) \notin {"true", "false"}, profile),
              o |-> {}, warned |-> warned]
        ELSE [res |-> "Ok",
              o |-> {t \in in_x : /\ is_in_insn(m, t, profile) = "false"
                                   /\ ~is_ptr(mod, t)
                                   /\ ~is_zero(mod, t)},
              warned |-> warned]

\* the image the relocation analyzer runs on: code, a zero dword and a
\* pointer in the executable section [0, 0x20), then eight pointers
RelocImage ==
    <<117, 2, 117, 0,   0, 0, 0, 0,   16, 16, 0, 0,   195, 195, 195, 195,
      232, 2, 0, 0,     0, 195, 195, 195,   0, 0, 0, 0,   16, 16, 0, 0,
      16, 16, 0, 0,     17, 16, 0, 0,   24, 16, 0, 0,   28, 16, 0, 0,
      32, 16, 0, 0,     2, 16, 0, 0,    0, 0, 0, 0,     21, 16, 0, 0>>

RelocModule ==
    [image |-> RelocImage,
     tile |-> <<0>>,
     sections |-> <<[addr |-> 0, size |-> 32, size31 |-> 0, exec |-> TRUE],
                    [addr |-> 32, size |-> PAGE_SIZE - 32, size31 |-> 0,
                     exec |-> FALSE]>>,
     mapped |-> {0}]

\* the page rva of the relocation block: the eight pointers start here
RelocPage == 32

\* the relocation entries in the low and in the high half of an entry
LoWords ==
    {Word(HIGHLOW, 0), Word(HIGHLOW, 4), Word(HIGHLOW, 20), Word(DIR64, 28),
     Word(11, 0), Word(HIGHLOW, 4064)}

HiWords == {Word(0, 0), Word(HIGHLOW, 8), Word(HIGHLOW, 12), Word(HIGHLOW, 16)}

\* directories whose one block header gives a block_size below the size of
\* a header, and one with a second header after such a block
ShortBlockDirectories ==
    {<<RelocPage, block_size>> : block_size \in {1, 3, 4, 7}}
        \cup {<<RelocPage, 7, 12>>}

Directories ==
    UNION {{<<RelocPage, 8 + 4 * n>> \o body :
               body \in [1..n -> {Entry(m, k) : m \in LoWords, k \in HiWords}]} :
           n \in 1..MaxRelocEntries}
        \cup ShortBlockDirectories

\* the metadata before the analyzer runs: nothing decoded, or the function
\* at 0x10 already disassembled
RelocMetas ==
    LET empty == [i \in 1..Len(RelocImage) |-> 0]
    IN  {[meta |-> empty, xrefs |-> {}], make_function(RelocModule, 16, empty, {})}

Profiles == {"debug", "release"}

InitReloc ==
    /\ NoAspace
    /\ build = [op |-> "none"]
    /\ flirt = [op |-> "none"]
    /\ reply = [op |-> "none"]
    /\ module = RelocModule
    /\ \E start \in RelocMetas : meta = start.meta /\ xrefs = start.xrefs
    /\ \E entries \in Directories :
          relocs = [entries |-> entries, op |-> "none"]

\* the workspace is loaded and no call has been made yet
RelocRunning == "entries" \in DOMAIN relocs /\ relocs.op = "none"

\* get_relocs(ws)
GetRelocs ==
    /\ RelocRunning
    /\ relocs' = [entries |-> relocs.entries, op |-> "get_relocs",
                  got |-> get_relocs(module, relocs.entries)]
    /\ UNCHANGED <<aspaceVars, wsVars, build, flirt>>

\* is_in_insn(ws, rva)
IsInInsn(rva, profile) ==
    /\ RelocRunning
    /\ relocs' = [entries |-> relocs.entries, op |-> "is_in_insn", rva |-> rva,
                  profile |-> profile, res |-> is_in_insn(meta, rva, profile)]
    /\ UNCHANGED <<aspaceVars, wsVars, build, flirt>>

\* RelocAnalyzer::analyze(ws), the targets taken from the set in any order;
\* finals keeps the metadata every order of the same targets ends with
RelocAnalyze(profile) ==
    /\ RelocRunning
    /\ LET t == reloc_targets(module, meta, relocs.entries, profile)
       IN  \E order \in Orders(t.o) :
               LET a == seed_all(module, order, meta, xrefs)
               IN  /\ relocs' = [entries |-> relocs.entries, op |-> "analyze",
                                 profile |-> profile, res |-> t.res,
                                 warned |-> t.warned, seeded |-> order,
                                 before |-> meta,
                                 finals |->
                                     {seed_all(module, o, meta, xrefs).meta :
                                         o \in Orders(t.o)}]
                   /\ meta' = a.meta
                   /\ xrefs' = a.xrefs
    /\ UNCHANGED <<aspaceVars, module, reply, build, flirt>>

IsInInsnArgs == {2, 16, 17, 21, 22}

NextReloc ==
    \/ GetRelocs
    \/ \E rva \in IsInInsnArgs, profile \in Profiles : IsInInsn(rva, profile)
    \/ \E profile \in Profiles : RelocAnalyze(profile)

SpecReloc == InitReloc /\ [][NextReloc]_vars


\* the 16-bit relocation entries of the directory, block headers left out
DirectoryWords ==
    LET body == SubSeq(relocs.entries, 3, Len(relocs.entries))
    IN  [i \in 1..(2 * Len(body)) |-> split_u32(body[(i + 1) \div 2])[2 - (i % 2)]]

WordType(w) == w \div 4096

\* the sites of the HIGHLOW and DIR64 entries of the directory
SupportedSites ==
    {RelocPage + (DirectoryWords[i] % 4096) :
        i \in {j \in 1..Len(DirectoryWords) :
                  WordType(DirectoryWords[j]) \in {HIGHLOW, DIR64}}}

\* rva lies inside an instruction that m records as decoded
InsideDecoded(m, rva) ==
    \E a \in 0..(rva - 1) :
        /\ rva - a <= 16
        /\ get_insn_length(m, a) /= 0
        /\ a + get_insn_length(m, a) > rva

\* the targets of sites that the analyzer's own tests let through
PassingTargets(sites) ==
    {t \in unique_targets(module, sites) :
        /\ sections_contain(module, t)
        /\ t >= 16 => is_in_insn(relocs.before, t, relocs.profile) = "false"
        /\ ~is_ptr(module, t)
        /\ ~is_zero(module, t)}

\* C14: when the relocation analyzer has run, it has returned Ok whatever
\* the types of the directory's entries are, it has warned once for every
\* entry whose type is neither HIGHLOW nor DIR64, and it has seeded the
\* targets of all HIGHLOW and DIR64 entries of the directory that pass its
\* tests.
C14_UnsupportedSkipped ==
    (relocs.op = "analyze" /\ relocs.res \notin {"panic", "diverges"}) =>
        /\ relocs.res = "Ok"
        /\ relocs.warned =
               Cardinality({j \in 1..Len(DirectoryWords) :
                               WordType(DirectoryWords[j]) \notin {HIGHLOW, DIR64}})
        /\ SeqToSet(relocs.seeded) = PassingTargets(SupportedSites)

\* C15: when the relocation analyzer has run on a directory that get_relocs
\* parses, the rvas it has called make_insn on are exactly the targets of
\* the pointers at the parsed HIGHLOW and DIR64 sites that lie in an
\* executable section, are not inside an instruction decoded before, do not
\* hold a pointer to mapped memory and do not hold zero.
C15_SeededExactly ==
    (relocs.op = "analyze" /\ get_relocs(module, relocs.entries).res = "Ok") =>
        SeqToSet(relocs.seeded) =
            {t \in unique_targets(module,
                       SupportedRelocs(get_relocs(module, relocs.entries).ret)) :
                /\ sections_contain(module, t)
                /\ ~InsideDecoded(relocs.before, t)
                /\ ~is_ptr(module, t)
                /\ ~is_zero(module, t)}

\* C16: is_in_insn(ws, rva) returns true when an instruction that starts in
\* the 0x10 bytes before rva reaches beyond rva, and false otherwise, for
\* every rva, those below 0x10 included.
C16_IsInInsn ==
    relocs.op = "is_in_insn" =>
        relocs.res = IF InsideDecoded(meta, relocs.rva) THEN "true" ELSE "false"

\* C29: get_relocs returns for every content of the relocation directory,
\* a block_size of 1 to 7 bytes included: every pass of the block loop
\* moves index on or leaves the loop.
C29_GetRelocsReturns ==
    relocs.op = "get_relocs" => relocs.got.res \in {"Ok", "Err"}

\* the same for a block_size of 4 or more
C29_GetRelocsReturnsFrom4 ==
    (relocs.op = "get_relocs" /\ relocs.entries[2] >= 4) =>
        relocs.got.res \in {"Ok", "Err"}

\* the (rva, is_insn, length) tuples of the flow metadata m
FlowTuples(m) == {<<i - 1, m[i] /= 0, m[i]>> : i \in 1..Len(m)}

\* C23: the (rva, is_insn, length) tuples the relocation analyzer ends
\* with are the same for every order its unique targets are seeded in.
C23_OrderIndependent ==
    relocs.op = "analyze" =>
        \A final \in relocs.finals : FlowTuples(final) = FlowTuples(meta)

\* the analyzer has seeded the call at 0x10 and the return at 0x15 that the
\* call falls through to, and both are decoded
C23_Witness ==
    /\ relocs.op = "analyze"
    /\ relocs.res = "Ok"
    /\ SeqToSet(relocs.seeded) = {16, 21}
    /\ relocs.before[17] = 0
    /\ meta[17] = 5
    /\ meta[22] = 1
    /\ Cardinality(relocs.finals) = 1


(***************************************************************************)
(* FLIRT signatures: flirt/src/lib.rs, flirt/src/nfa.rs and                *)
(* core/src/analysis/pe/flirt/mod.rs.                                      *)
(*                                                                         *)
(* A signature is [byte_sig, size_of_bytes_crc16, crc16, size_of_function, *)
(* names]; an element of byte_sig is a byte 0..255 or WILDCARD; a name is  *)
(* [kind, offset, name].                                                   *)
(* flirt = [sigs, op, ...]: the loaded signatures, the last call, its      *)
(* arguments and its result.                                               *)
(***************************************************************************)

MaxSigs == 2

MaxBufLen == 4

\* nfa.rs: Symbol(0x100); lib.rs: SigElement::Wildcard
WILDCARD == 256

POLY == 33800

\* a ^ b on values below 2^n
RECURSIVE BitXor(_, _, _)
BitXor(a, b, n) ==
    IF n = 0 THEN 0
    ELSE (((a % 2) + (b % 2)) % 2) + 2 * BitXor(a \div 2, b \div 2, n - 1)

\* crc and b are u32 in crc16, and stay below 2^16
Xor(a, b) == BitXor(a, b, 16)

\* the low 16 bits of !x; crc16 reads no other bit of the inverted value
NotLow16(x) == 65535 - (x % 65536)

\* for _ in 0..8
RECURSIVE crc16_bits(_, _, _)
crc16_bits(crc, b, n) ==
    IF n = 0 THEN crc
    ELSE LET next == IF Xor(crc, b) % 2 > 0 THEN Xor(crc \div 2, POLY)
                     ELSE crc \div 2
             rest == b \div 2
         IN  IF next >= 0 /\ rest >= 0 THEN crc16_bits(next, rest, n - 1) ELSE 0

\* for &b in buf
RECURSIVE crc16_bytes(_, _)
crc16_bytes(crc, buf) ==
    IF buf = <<>> THEN crc
    ELSE LET next == crc16_bits(crc, Head(buf), 8)
         IN  IF next >= 0 THEN crc16_bytes(next, Tail(buf)) ELSE 0

crc16_NoSwap(buf) ==
    IF Len(buf) = 0 THEN 0
    ELSE NotLow16(crc16_bytes(65535, buf))

crc16(buf) ==
    IF Len(buf) = 0 THEN 0
    ELSE LET crc == NotLow16(crc16_bytes(65535, buf))
             h1 == crc % 256
             h2 == (crc \div 256) % 256
         IN  ((h1 * 256) % 65536) + h2

\* FlirtSignature::get_name: the first public name at offset 0
RECURSIVE get_name(_)
get_name(names) ==
    IF names = <<>> THEN None
    ELSE IF Head(names).kind = "Public" /\ Head(names).offset = 0
         THEN <<Head(names).name>>
         ELSE get_name(Tail(names))

\* the elements create_pattern turns into the regular expression: a byte
\* gives \xNN, a wildcard gives "."
create_pattern(sig) ==
    IF sig.size_of_function < 32
    THEN SubSeq(sig.byte_sig, 1, sig.size_of_function)
    ELSE sig.byte_sig

\* Regex::is_match of (?-u)(^pattern): anchored at the start of buf; "."
\* without the s flag matches every byte but the line feed
re_is_match(pattern, buf) ==
    /\ Len(buf) >= Len(pattern)
    /\ \A i \in 1..Len(pattern) :
           IF pattern[i] = WILDCARD THEN buf[i] /= 10 ELSE buf[i] = pattern[i]

FlirtSignatureMatcher_match_NoCrc(sig, buf) ==
    re_is_match(create_pattern(sig), buf)

\* FlirtSignatureMatcher::match
FlirtSignatureMatcher_match(sig, buf) ==
    IF ~re_is_match(create_pattern(sig), buf) THEN FALSE
    ELSE IF sig.size_of_bytes_crc16 > 0
    THEN LET byte_sig_size == Len(sig.byte_sig)
             start == byte_sig_size
             end == byte_sig_size + sig.size_of_bytes_crc16
         IN  IF end > Len(buf) THEN FALSE
             ELSE IF crc16(SubSeq(buf, start + 1, end)) /= sig.crc16 THEN FALSE
             ELSE TRUE
    ELSE TRUE

\* NFA::match: the body is "TODO; vec![]"
NFA_match(patterns, buf) == <<>>

\* the wildcards among the first size_of_function elements of byte_sig
wc_count(sig) ==
    Cardinality({i \in 1..Len(sig.byte_sig) :
                    i <= sig.size_of_function /\ sig.byte_sig[i] = WILDCARD})

filter_keep_Lax(sig) ==
    IF get_name(sig.names) = None THEN FALSE
    ELSE IF sig.size_of_function < 8 THEN FALSE
    ELSE IF sig.size_of_function < 16 /\ wc_count(sig) > 0 THEN FALSE
    ELSE IF sig.size_of_function < 24 /\ wc_count(sig) > 4 THEN FALSE
    ELSE TRUE

\* the closure filter_flirt_signatures filters with
filter_keep(sig) ==
    IF get_name(sig.names) = None THEN FALSE
    ELSE IF sig.size_of_function < 8 THEN FALSE
    ELSE IF sig.size_of_function < 16 /\ wc_count(sig) > 0 THEN FALSE
    ELSE IF sig.size_of_function < 24 /\ wc_count(sig) > 4 THEN FALSE
    ELSE IF sig.size_of_function < 32 /\ wc_count(sig) > 16 THEN FALSE
    ELSE TRUE

filter_flirt_signatures(sigs) == SelectSeq(sigs, filter_keep)

Name(kind, offset, name) == [kind |-> kind, offset |-> offset, name |-> name]

Signature(byte_sig, crc_len, crc, size, names) ==
    [byte_sig |-> byte_sig, size_of_bytes_crc16 |-> crc_len, crc16 |-> crc,
     size_of_function |-> size, names |-> names]

\* the first 0x20 bytes of the function of the doc-test of match
DocPrefix ==
    <<81, 139, 76, 36, 12, 137, 92, 36, 12, 141, 92, 36, 12, 80, 141, 68,
      36, 8, 247, 217, 35, 193, 141, 96, 248, 139, 67, 240, 137, 4, 36, 139>>

\* its next 0x20 bytes, the ones the checksum is taken of
DocCrcBytes ==
    <<67, 248, 80, 139, 67, 252, 139, 75, 244, 137, 108, 36, 12, 141, 108, 36,
      12, 199, 68, 36, 8, 255, 255, 255, 255, 81, 83, 43, 224, 86, 87, 161>>

DocTail ==
    <<212, 173, 25, 1, 51, 197, 80, 137, 101, 240, 139, 67, 4, 137, 69, 4,
      255, 117, 244, 100, 161, 0, 0, 0, 0, 137, 69, 244, 141, 69, 244, 100,
      163, 0, 0, 0, 0, 195>>

DocBuf == DocPrefix \o DocCrcBytes \o DocTail

\* __EH_prolog3_catch_align: 20 6562 0067 :0000 __EH_prolog3_catch_align
DocSig ==
    Signature(DocPrefix, 32, 25954, 103,
              <<Name("Public", 0, "__EH_prolog3_catch_align"),
                Name("Reference", 64, "___security_cookie")>>)

\* a 32-element prefix: w wildcards, then bytes, then p wildcards
ByteSig(w, p) ==
    [i \in 1..32 |-> IF i <= w \/ i > 32 - p THEN WILDCARD ELSE 85]

NameLists ==
    {<<>>,
     <<Name("Public", 0, "f")>>,
     <<Name("Public", 4, "f")>>,
     <<Name("Local", 0, "f"), Name("Reference", 0, "g")>>,
     <<Name("Public", 4, "g"), Name("Public", 0, "f")>>}

\* the signatures the filter is given one at a time
SigPool ==
    {Signature(ByteSig(w, p), 0, 0, size, names) :
        w \in {0, 1, 4, 5, 16, 17}, p \in {0, 8},
        size \in {7, 8, 15, 16, 23, 24, 31, 32}, names \in NameLists}

\* the signatures the filter is given several of
FewSigs ==
    {Signature(ByteSig(0, 8), 0, 0, 8, <<Name("Public", 0, "a")>>),
     Signature(ByteSig(1, 0), 0, 0, 16, <<Name("Public", 0, "b")>>),
     Signature(ByteSig(1, 0), 0, 0, 15, <<Name("Public", 0, "c")>>)}

\* the bytes of the buffers handed to crc16 and to match
BufBytes == {10, 85, 255}

Bufs == UNION {[1..n -> BufBytes] : n \in 0..MaxBufLen}

\* short signatures for match: a two-element prefix, then the checksum of
\* zero to two bytes: the right one (of 85 or 85 255) or a wrong one
MatchSigs ==
    {Signature(prefix, crc_len, crc, size, <<Name("Public", 0, "f")>>) :
        prefix \in [1..2 -> {85, WILDCARD}],
        crc_len \in 0..2,
        crc \in {0, crc16(<<85>>), crc16(<<85, 255>>)},
        size \in {1, 2, 32}}

\* what is loaded: nothing, one signature, or several of FewSigs
SigLists ==
    {<<>>}
        \cup {<<sig>> : sig \in SigPool \cup MatchSigs \cup {DocSig}}
        \cup UNION {[1..n -> FewSigs] : n \in 2..MaxSigs}

InitFlirt ==
    /\ NoAspace
    /\ NoFlow
    /\ build = [op |-> "none"]
    /\ relocs = [op |-> "none"]
    /\ \E sigs \in SigLists : flirt = [sigs |-> sigs, op |-> "none"]

\* the signatures are loaded and no call has been made yet
FlirtRunning == "sigs" \in DOMAIN flirt /\ flirt.op = "none"

\* FlirtSignatureMatcher::crc16(buf)
Crc16(buf) ==
    /\ FlirtRunning
    /\ flirt.sigs = <<>>
    /\ flirt' = [sigs |-> flirt.sigs, op |-> "crc16", buf |-> buf,
                 res |-> crc16(buf)]
    /\ UNCHANGED <<aspaceVars, wsVars, build, relocs>>

\* the buffers the loaded signature is matched against
MatchBufs == IF flirt.sigs = <<DocSig>> THEN {DocBuf} ELSE Bufs

\* one short signature, or the one of the doc-test, is loaded
Matchable ==
    /\ FlirtRunning
    /\ Len(flirt.sigs) = 1
    /\ flirt.sigs[1] \in MatchSigs \cup {DocSig}

\* sig.create_matcher().match(buf)
Match(buf) ==
    /\ Matchable
    /\ buf \in MatchBufs
    /\ flirt' = [sigs |-> flirt.sigs, op |-> "match", buf |-> buf,
                 res |-> FlirtSignatureMatcher_match(flirt.sigs[1], buf)]
    /\ UNCHANGED <<aspaceVars, wsVars, build, relocs>>

\* the prefix stage alone: the regular expression of the matcher, and the
\* NFA built of the signature's pattern
PrefixStage(buf) ==
    /\ Matchable
    /\ buf \in MatchBufs
    /\ flirt' = [sigs |-> flirt.sigs, op |-> "prefix", buf |-> buf,
                 re |-> re_is_match(create_pattern(flirt.sigs[1]), buf),
                 nfa |-> NFA_match(<<create_pattern(flirt.sigs[1])>>, buf)]
    /\ UNCHANGED <<aspaceVars, wsVars, build, relocs>>

\* filter_flirt_signatures(sigs)
Filter ==
    /\ FlirtRunning
    /\ flirt' = [sigs |-> flirt.sigs, op |-> "filter",
                 res |-> filter_flirt_signatures(flirt.sigs)]
    /\ UNCHANGED <<aspaceVars, wsVars, build, relocs>>

NextFlirt ==
    \/ \E buf \in Bufs \cup {DocCrcBytes} : Crc16(buf)
    \/ \E buf \in Bufs \cup {DocBuf} : Match(buf)
    \/ \E buf \in Bufs \cup {DocBuf} : PrefixStage(buf)
    \/ Filter

SpecFlirt == InitFlirt /\ [][NextFlirt]_vars


\* the 16 bits of x, lowest first; the value of 16 bits
Bits16(x) == [i \in 0..15 |-> (x \div (2 ^ i)) % 2]

RECURSIVE BitsValue(_, _)
BitsValue(bits, i) == IF i > 15 THEN 0 ELSE bits[i] + 2 * BitsValue(bits, i + 1)

\* one step of the reflected CRC with polynomial 0x8408 (bits 3, 10, 15)
CrcShift(reg, bit) ==
    LET feedback == reg[0] /= bit
    IN  [i \in 0..15 |->
            LET shifted == IF i = 15 THEN 0 ELSE reg[i + 1]
            IN  IF feedback /\ i \in {3, 10, 15} THEN 1 - shifted ELSE shifted]

\* the register after the bits k, k + 1, ..., 7 of byte
RECURSIVE CrcByte(_, _, _)
CrcByte(reg, byte, k) ==
    IF k > 7 THEN reg
    ELSE LET next == CrcShift(reg, (byte \div (2 ^ k)) % 2)
         IN  IF next[0] >= 0 THEN CrcByte(next, byte, k + 1) ELSE reg

RECURSIVE CrcRegister(_, _)
CrcRegister(reg, buf) ==
    IF buf = <<>> THEN reg
    ELSE LET next == CrcByte(reg, Head(buf), 0)
         IN  IF next[0] >= 0 THEN CrcRegister(next, Tail(buf)) ELSE reg

\* IDA's CRC16 as the specification gives it
IdaCrc16(buf) ==
    IF buf = <<>> THEN 0
    ELSE LET reg == CrcRegister([i \in 0..15 |-> 1], buf)
             crc == BitsValue([i \in 0..15 |-> 1 - reg[i]], 0)
         IN  (crc % 256) * 256 + (crc \div 256)

\* C17: crc16 returns 0 for the empty input and otherwise the reflected
\* CRC with polynomial 0x8408 and initial value 0xFFFF, inverted, masked to
\* 16 bits and with its two bytes swapped.
C17_Crc16 ==
    flirt.op = "crc16" =>
        /\ flirt.res = IdaCrc16(flirt.buf)
        /\ flirt.buf = <<>> => flirt.res = 0
        /\ flirt.res \in 0..65535

C17_Witness ==
    /\ flirt.op = "crc16"
    /\ flirt.buf = DocCrcBytes
    /\ flirt.res = 25954

\* the bytes of buf that follow the prefix, crc_length of them
AfterPrefix(sig, buf) ==
    SubSeq(buf, Len(sig.byte_sig) + 1, Len(sig.byte_sig) + sig.size_of_bytes_crc16)

\* C18: match(buf) is true exactly when the prefix stage accepts buf and
\* crc_length is 0 or buf holds |prefix| + crc_length bytes of which those
\* after the prefix have the stored CRC16; the answer is a boolean in every
\* case, and the __EH_prolog3_catch_align signature matches the function of
\* the doc-test.
C18_Match ==
    flirt.op = "match" =>
        LET sig == flirt.sigs[1]
        IN  /\ flirt.res \in BOOLEAN
            /\ flirt.res =
                   (/\ re_is_match(create_pattern(sig), flirt.buf)
                    /\ \/ sig.size_of_bytes_crc16 = 0
                       \/ /\ Len(flirt.buf) >= Len(sig.byte_sig) + sig.size_of_bytes_crc16
                          /\ IdaCrc16(AfterPrefix(sig, flirt.buf)) = sig.crc16)
            /\ (sig = DocSig /\ flirt.buf = DocBuf) => flirt.res

C18_Witness ==
    /\ flirt.op = "match"
    /\ flirt.sigs = <<DocSig>>
    /\ flirt.buf = DocBuf
    /\ flirt.res

\* the positions the prefix stage compares
PrefixPositions(sig) ==
    1..Min(Min(32, sig.size_of_function), Len(sig.byte_sig))

\* the prefix of sig matches buf byte by byte, a wildcard matching any byte
PrefixMatches(sig, buf) ==
    /\ Len(buf) >= Cardinality(PrefixPositions(sig))
    /\ \A i \in PrefixPositions(sig) :
           sig.byte_sig[i] = WILDCARD \/ sig.byte_sig[i] = buf[i]

\* C19: the prefix stage accepts an input exactly when every compared
\* position holds a wildcard or the input's byte, whatever that byte is,
\* and the NFA reports every signature whose prefix matches.
C19_PrefixStage ==
    flirt.op = "prefix" =>
        /\ flirt.re = PrefixMatches(flirt.sigs[1], flirt.buf)
        /\ PrefixMatches(flirt.sigs[1], flirt.buf) =>
               flirt.nfa = <<create_pattern(flirt.sigs[1])>>

HasPublicNameAtZero(sig) ==
    \E i \in 1..Len(sig.names) :
        sig.names[i].kind = "Public" /\ sig.names[i].offset = 0

\* the wildcards among the first n elements of the prefix
Wildcards(sig, n) ==
    Cardinality({i \in 1..Min(n, Len(sig.byte_sig)) : sig.byte_sig[i] = WILDCARD})

\* the filter rule with the wildcards counted over n prefix elements
Kept(sig, n) ==
    /\ HasPublicNameAtZero(sig)
    /\ sig.size_of_function >= 8
    /\ ~(sig.size_of_function < 16 /\ Wildcards(sig, n) >= 1)
    /\ ~(sig.size_of_function < 24 /\ Wildcards(sig, n) > 4)
    /\ ~(sig.size_of_function < 32 /\ Wildcards(sig, n) > 16)

KeptWholePrefix(sig) == Kept(sig, Len(sig.byte_sig))

KeptWithinFunction(sig) == Kept(sig, sig.size_of_function)

\* C20 as stated: the filter keeps, in their order, exactly the signatures
\* with a public name at offset 0, function_length >= 8 and, counted over
\* the whole prefix, no wildcard when function_length < 16, at most 4 when
\* function_length < 24 and at most 16 when function_length < 32.
C20_FilterWholePrefix ==
    flirt.op = "filter" => flirt.res = SelectSeq(flirt.sigs, KeptWholePrefix)

\* C20 amended: the same with the wildcards counted among the first
\* function_length elements of the prefix only.
C20_FilterWithinFunction ==
    flirt.op = "filter" => flirt.res = SelectSeq(flirt.sigs, KeptWithinFunction)

C20_Witness ==
    /\ flirt.op = "filter"
    /\ Len(flirt.sigs) = 2
    /\ Len(flirt.res) = 1
    /\ flirt.res[1] = flirt.sigs[2]
    /\ Wildcards(flirt.res[1], 32) > 0


\* ---------------------------------------------------------------------
\* FlirtAnalyzer::analyze: naming the functions the signatures match
\* ---------------------------------------------------------------------

\* the length of the buffer FlirtAnalyzer::analyze reads each function into
FLIRT_BUF_LEN == 255

\* Workspace::read_bytes_into(rva, buf) with |buf| = n
read_bytes_into(mod, rva, n) ==
    LET r == address_space_slice_into(mod, rva, n)
    IN  IF r.res = "Ok" THEN r ELSE [res |-> InvalidAddress, val |-> <<>>]

\* FlirtSignatureSet::match(buf): the signatures of the set that match buf,
\* in the order of the set
FlirtSignatureSet_match(sigs, buf) ==
    SelectSeq(sigs, LAMBDA sig : FlirtSignatureMatcher_match(sig, buf))

\* the body of the loop of FlirtAnalyzer::analyze for one function
FlirtAnalyzer_analyze_one(mod, sigs, fva) ==
    LET r == read_bytes_into(mod, fva, FLIRT_BUF_LEN)
    IN  IF r.res /= "Ok" THEN [kind |-> "unread"]
        ELSE LET matches == FlirtSignatureSet_match(sigs, r.val)
             IN  IF matches = <<>> THEN [kind |-> "none"]
                 ELSE LET name1 == get_name(matches[1].names)
                      IN  IF /\ Len(matches) > 1
                             /\ \E i \in 2..Len(matches) :
                                    get_name(matches[i].names) /= name1
                          THEN [kind |-> "ambiguous"]
                          ELSE IF name1 = None THEN [kind |-> "panic"]
                          ELSE [kind |-> "symbol", name |-> name1[1]]

\* the loop of FlirtAnalyzer::analyze over functions[i..]: what was done
\* for each function, up to the first panic
RECURSIVE FlirtAnalyzer_analyze_loop(_, _, _, _)
FlirtAnalyzer_analyze_loop(mod, sigs, functions, i) ==
    IF i > Len(functions) THEN <<>>
    ELSE LET one == FlirtAnalyzer_analyze_one(mod, sigs, functions[i])
         IN  IF one.kind = "panic" THEN <<one>>
             ELSE <<one>> \o
                  FlirtAnalyzer_analyze_loop(mod, sigs, functions, i + 1)

\* one mapped page of code: 55 FF 55 55, then 55 FF repeated to the end of
\* the page
FlirtModule ==
    [image |-> <<85, 255, 85, 85>>,
     tile |-> <<85, 255>>,
     sections |-> <<[addr |-> 0, size |-> PAGE_SIZE, size31 |-> 0,
                     exec |-> TRUE]>>,
     mapped |-> {0}]

\* the functions of the workspace: three at the start of the page and one
\* 96 bytes before its end
FunctionRvas == {0, 1, 2, 4000}

RECURSIVE Ascending(_)
Ascending(set) ==
    IF set = {} THEN <<>>
    ELSE LET lo == CHOOSE x \in set : \A y \in set : x <= y
         IN  <<lo>> \o Ascending(set \ {lo})

FunctionLists == {Ascending(set) : set \in SUBSET FunctionRvas \ {{}}}

\* the signatures of the analyzer: a prefix of two elements, no checksum, a
\* public name at offset 0
NamedSigs ==
    {Signature(prefix, 0, 0, 32, <<Name("Public", 0, name)>>) :
        prefix \in {<<85, 255>>, <<85, WILDCARD>>, <<255, 85>>},
        name \in {"f", "g"}}

NamedSigLists == UNION {[1..n -> NamedSigs] : n \in 1..MaxSigs}

InitFlirtAnalyzer ==
    /\ NoAspace
    /\ build = [op |-> "none"]
    /\ relocs = [op |-> "none"]
    /\ module = FlirtModule
    /\ meta = <<>>
    /\ xrefs = {}
    /\ reply = [op |-> "none"]
    /\ \E sigs \in NamedSigLists, functions \in FunctionLists :
          flirt = [sigs |-> sigs, functions |-> functions, op |-> "none"]

\* FlirtAnalyzer::analyze(ws); ok: does the final ws.analyze() succeed
FlirtAnalyze(ok) ==
    /\ "functions" \in DOMAIN flirt
    /\ flirt.op = "none"
    /\ LET done == FlirtAnalyzer_analyze_loop(module, flirt.sigs,
                                              flirt.functions, 1)
           panicked == done /= <<>> /\ done[Len(done)].kind = "panic"
       IN  flirt' = [sigs |-> flirt.sigs, functions |-> flirt.functions,
                     op |-> "analyze", done |-> done,
                     res |-> IF panicked THEN "panic"
                             ELSE IF ok THEN "Ok" ELSE "Err"]
    /\ UNCHANGED <<aspaceVars, wsVars, build, relocs>>

NextFlirtAnalyzer == \E ok \in BOOLEAN : FlirtAnalyze(ok)

SpecFlirtAnalyzer == InitFlirtAnalyzer /\ [][NextFlirtAnalyzer]_vars


\* the bytes of the function at fva: up to 0xFF of them, as many as are
\* mapped
FunctionBytes(mod, fva) ==
    LET n == Min(FLIRT_BUF_LEN, MappedRun(mod, fva))
    IN  [i \in 1..n |-> ByteAt(mod, fva + i - 1)]

\* sig matches buf: the prefix position by position, then the checksum of
\* the bytes after the prefix
SignatureMatches(sig, buf) ==
    /\ PrefixMatches(sig, buf)
    /\ sig.size_of_bytes_crc16 > 0 =>
           /\ Len(sig.byte_sig) + sig.size_of_bytes_crc16 <= Len(buf)
           /\ IdaCrc16(SubSeq(buf, Len(sig.byte_sig) + 1,
                              Len(sig.byte_sig) + sig.size_of_bytes_crc16))
                  = sig.crc16

\* the display names of the signatures that match the function at fva
MatchingNames(fva) ==
    {get_name(flirt.sigs[i].names) :
        i \in {j \in 1..Len(flirt.sigs) :
                  SignatureMatches(flirt.sigs[j], FunctionBytes(module, fva))}}

\* C21: each function gets a symbol exactly when at least one signature
\* matches it and all the matching signatures have one name, and the symbol
\* is that name; a function matched under two names gets no symbol, and
\* the functions after it are still processed.
C21_NameAssigned ==
    flirt.op = "analyze" =>
        /\ Len(flirt.done) = Len(flirt.functions)
        /\ \A i \in 1..Len(flirt.functions) :
               LET names == MatchingNames(flirt.functions[i])
               IN  IF Cardinality(names) = 1
                   THEN flirt.done[i] =
                            [kind |-> "symbol",
                             name |-> (CHOOSE n \in names : TRUE)[1]]
                   ELSE flirt.done[i].kind \in {"none", "ambiguous"}

\* the same for the functions whose 0xFF bytes could all be read
C21_NameAssignedWhenRead ==
    flirt.op = "analyze" =>
        /\ Len(flirt.done) = Len(flirt.functions)
        /\ \A i \in 1..Len(flirt.functions) :
               LET names == MatchingNames(flirt.functions[i])
               IN  flirt.done[i].kind /= "unread" =>
                       /\ Cardinality(names) = 1 =>
                              flirt.done[i] =
                                  [kind |-> "symbol",
                                   name |-> (CHOOSE n \in names : TRUE)[1]]
                       /\ Cardinality(names) = 0 =>
                              flirt.done[i].kind = "none"
                       /\ Cardinality(names) > 1 =>
                              flirt.done[i].kind = "ambiguous"


\* ---------------------------------------------------------------------
\* The first workspace (src/src/lib.rs): per-location xref lists
\* ---------------------------------------------------------------------

\* the add_xref calls of one run
MaxXrefCalls == 2

\* Section::contains of the first workspace; len is buf.len()
LegacySection_contains(sec, rva) ==
    IF rva < sec.addr THEN FALSE
    ELSE IF rva >= sec.addr + sec.len THEN FALSE
    ELSE TRUE

\* Workspace::get_section_mut(rva): the index of the first section that
\* contains rva, 0 for Err(InvalidRva)
get_section_mut(sections, rva) ==
    IF \E i \in 1..Len(sections) : LegacySection_contains(sections[i], rva)
    THEN CHOOSE i \in 1..Len(sections) :
             /\ LegacySection_contains(sections[i], rva)
             /\ \A j \in 1..(i - 1) : ~LegacySection_contains(sections[j], rva)
    ELSE 0

\* Workspace::get_loc_mut(rva).is_ok()
get_loc_mut_is_ok(sections, rva) == get_section_mut(sections, rva) /= 0

\* Workspace::add_xref: xs.to and xs.from are the `to` and `from` vectors
\* of the locations, by address
add_xref(sections, xs, xref) ==
    LET to1 == IF get_loc_mut_is_ok(sections, xref.dst)
               THEN [xs.to EXCEPT ![xref.dst] = Append(@, xref)]
               ELSE xs.to
        from1 == IF get_loc_mut_is_ok(sections, xref.src)
                 THEN [xs.from EXCEPT ![xref.src] = Append(@, xref)]
                 ELSE xs.from
    IN  [from |-> from1, to |-> to1]

\* the loop of analyze_xrefs over the xrefs of the instructions
RECURSIVE analyze_xrefs(_, _, _)
analyze_xrefs(sections, xs, list) ==
    IF list = <<>> THEN xs
    ELSE analyze_xrefs(sections, add_xref(sections, xs, Head(list)),
                       Tail(list))

\* two sections of two bytes and of one byte; rva 2 and rva 5 are in no
\* section
LegacySections == <<[addr |-> 0, len |-> 2], [addr |-> 4, len |-> 1]>>

\* the addresses that have a location
LegacyLocs ==
    {rva \in 0..5 : get_loc_mut_is_ok(LegacySections, rva)}

LegacyRvas == {0, 1, 4, 5}

LegacyXrefs ==
    {[src |-> s, dst |-> d, typ |-> t] :
        s \in LegacyRvas, d \in LegacyRvas, t \in {Fallthrough, Call}}

\* what analyze_insn_xrefs gives for the instructions of the sections:
\* xrefs from a location to a location
InsnXrefLists ==
    LET inside == {x \in LegacyXrefs :
                      x.src \in LegacyLocs /\ x.dst \in LegacyLocs}
    IN  UNION {[1..n -> inside] : n \in 1..MaxXrefCalls}

InitLegacy ==
    /\ NoAspace
    /\ NoLoad
    /\ module = [sections |-> LegacySections]
    /\ meta = <<>>
    /\ xrefs = [from |-> [rva \in LegacyLocs |-> <<>>],
                to |-> [rva \in LegacyLocs |-> <<>>]]
    /\ reply = [op |-> "load_sections", calls |-> 0]

LegacyRunning == "calls" \in DOMAIN reply

\* Workspace::add_xref(xref)
AddXref(xref) ==
    /\ LegacyRunning
    /\ reply.calls < MaxXrefCalls
    /\ xrefs' = add_xref(module.sections, xrefs, xref)
    /\ reply' = [op |-> "add_xref", calls |-> reply.calls + 1]
    /\ UNCHANGED <<aspaceVars, module, meta, loadVars>>

\* Workspace::analyze_xrefs(), list being the xrefs of the instructions
AnalyzeXrefs(list) ==
    /\ LegacyRunning
    /\ reply.calls + Len(list) <= MaxXrefCalls
    /\ xrefs' = analyze_xrefs(module.sections, xrefs, list)
    /\ reply' = [op |-> "analyze_xrefs", calls |-> reply.calls + Len(list)]
    /\ UNCHANGED <<aspaceVars, module, meta, loadVars>>

NextLegacy ==
    \/ \E xref \in LegacyXrefs : AddXref(xref)
    \/ \E list \in InsnXrefLists : AnalyzeXrefs(list)

SpecLegacy == InitLegacy /\ [][NextLegacy]_vars


\* how often x is in list
RECURSIVE Occurrences(_, _)
Occurrences(list, x) ==
    IF list = <<>> THEN 0
    ELSE (IF Head(list) = x THEN 1 ELSE 0) + Occurrences(Tail(list), x)

\* the xrefs-from list and the xrefs-to list of an address; an address
\* without a location has none
XrefsFromOf(rva) == IF rva \in DOMAIN xrefs.from THEN xrefs.from[rva] ELSE <<>>
XrefsToOf(rva) == IF rva \in DOMAIN xrefs.to THEN xrefs.to[rva] ELSE <<>>

\* C22: after any sequence of add_xref calls an xref is in the xrefs-from
\* list of its source exactly when it is in the xrefs-to list of its
\* destination, and then it is exactly once in each of the two lists.
C22_XrefSymmetry ==
    LegacyRunning =>
        \A x \in LegacyXrefs :
            LET from == Occurrences(XrefsFromOf(x.src), x)
                to == Occurrences(XrefsToOf(x.dst), x)
            IN  /\ from > 0 <=> to > 0
                /\ from <= 1
                /\ to <= 1

\* the part of it that holds: an xref between two locations is as often in
\* the one list as in the other
C22_SameCountInside ==
    LegacyRunning =>
        \A x \in LegacyXrefs :
            (x.src \in LegacyLocs /\ x.dst \in LegacyLocs) =>
                Occurrences(XrefsFromOf(x.src), x)
                    = Occurrences(XrefsToOf(x.dst), x)


\* ---------------------------------------------------------------------
\* u64_i64 (src/src/lib.rs): a u64 is four 16-bit limbs, lowest first; an
\* i64 is a sign and the four limbs of its magnitude
\* ---------------------------------------------------------------------

LIMB == 65536

\* i & 1 << 63 > 0
u64_top_bit(i) == i[4] >= LIMB \div 2

\* i & 0x7FFF_FFFF_FFFF_FFFF
u64_and_low63(i) == [i EXCEPT ![4] = @ % (LIMB \div 2)]

\* !bits
u64_not(bits) == [k \in 1..4 |-> (LIMB - 1) - bits[k]]

\* bits + 1: the sum modulo 2^64 and whether it overflowed
u64_add_one(bits) ==
    LET carry_into(k) == \A j \in 1..(k - 1) : bits[j] = LIMB - 1
    IN  [val |-> [k \in 1..4 |->
                     IF carry_into(k) THEN (bits[k] + 1) % LIMB ELSE bits[k]],
         overflow |-> carry_into(5)]

\* -(bits as i64) for bits below 2^63
i64_neg(bits) == [neg |-> bits /= <<0, 0, 0, 0>>, mag |-> bits]

\* u64_i64(i); in a debug build the overflow of bits + 1 panics, in a
\* release build it wraps
u64_i64(i, profile) ==
    IF u64_top_bit(i)
    THEN LET bits1 == u64_and_low63(i)
             bits2 == u64_not(bits1)
             bits3 == u64_add_one(bits2)
             bits4 == u64_and_low63(bits3.val)
         IN  IF bits3.overflow /\ profile = "debug"
             THEN [res |-> "panic"]
             ELSE [res |-> "Ok", val |-> i64_neg(bits4)]
    ELSE [res |-> "Ok", val |-> [neg |-> FALSE, mag |-> i]]

\* the limbs of the inputs
Limbs == {0, 1, 32767, 32768, 65535}

U64s == [1..4 -> Limbs]

InitCast ==
    /\ NoAspace
    /\ NoLoad
    /\ module = [image |-> <<>>, tile |-> <<0>>, sections |-> <<>>,
                 mapped |-> {}]
    /\ meta = <<>>
    /\ xrefs = {}
    /\ \E i \in U64s : reply = [op |-> "input", i |-> i]

\* u64_i64(i)
U64I64(profile) ==
    /\ reply.op = "input"
    /\ reply' = [op |-> "u64_i64", i |-> reply.i, profile |-> profile,
                 ret |-> u64_i64(reply.i, profile)]
    /\ UNCHANGED <<aspaceVars, module, meta, xrefs, loadVars>>

NextCast == \E profile \in Profiles : U64I64(profile)

SpecCast == InitCast /\ [][NextCast]_vars


\* a + b = 2^64, limb by limb
SumsTo2_64(a, b) ==
    LET carry(k) == IF \E j \in 1..(k - 1) : a[j] + b[j] /= 0 THEN 1 ELSE 0
    IN  /\ \A k \in 1..4 : (a[k] + b[k] + carry(k)) % LIMB = 0
        /\ \E k \in 1..4 : a[k] + b[k] /= 0
        /\ \A k \in 1..4 :
               (\A j \in 1..(k - 1) : a[j] + b[j] = 0) =>
                   a[k] + b[k] \in {0, LIMB}

\* v is the signed integer whose 64-bit two's-complement pattern is i
Reinterprets(v, i) ==
    IF u64_top_bit(i) THEN v.neg /\ SumsTo2_64(v.mag, i)
    ELSE ~v.neg /\ v.mag = i

\* C24: u64_i64(i) returns, for every 64-bit i, the signed integer with the
\* bit pattern of i, 0x8000_0000_0000_0000 giving the least i64, and it
\* does not overflow on the way.
C24_Reinterpret ==
    reply.op = "u64_i64" =>
        /\ reply.ret.res = "Ok"
        /\ Reinterprets(reply.ret.val, reply.i)

\* the same for every input but 0x8000_0000_0000_0000
C24_ReinterpretBut2_63 ==
    (reply.op = "u64_i64" /\ reply.i /= <<0, 0, 0, 32768>>) =>
        /\ reply.ret.res = "Ok"
        /\ Reinterprets(reply.ret.val, reply.i)


\* ---------------------------------------------------------------------
\* get_basic_blocks: predecessors and termination
\* ---------------------------------------------------------------------

\* C26: in the result of get_basic_blocks block P is as often in the
\* predecessors of block S as the start of S is in the successors of P, the
\* predecessors of a block are starts of returned blocks, and every
\* successor of every block is the start of a returned block.
C26_PredecessorsInvertSuccessors ==
    (reply.op = "get_basic_blocks" /\ reply.res = "Ok") =>
        LET starts == {reply.blocks[i].addr : i \in 1..Len(reply.blocks)}
        IN  /\ \A p, s \in 1..Len(reply.blocks) :
                   Occurrences(reply.blocks[s].predecessors,
                               reply.blocks[p].addr)
                       = Occurrences(reply.blocks[p].successors,
                                     reply.blocks[s].addr)
            /\ \A i \in 1..Len(reply.blocks) :
                   /\ SeqToSet(reply.blocks[i].successors) \subseteq starts
                   /\ SeqToSet(reply.blocks[i].predecessors) \subseteq starts

\* on 75 00 C3 the block at 0 lists 2 twice as a successor and the block at
\* 2 lists 0 twice as a predecessor
C26_Witness ==
    /\ module.image = JumpToNext
    /\ reply.op = "get_basic_blocks"
    /\ reply.res = "Ok"
    /\ reply.rva = 0
    /\ Len(reply.blocks) = 2
    /\ \E p, s \in 1..Len(reply.blocks) :
          /\ reply.blocks[p].addr = 0
          /\ reply.blocks[p].successors = <<2, 2>>
          /\ reply.blocks[s].addr = 2
          /\ reply.blocks[s].predecessors = <<0, 0>>


\* get_basic_blocks one loop iteration at a time.  reply holds the locals
\* of the call: the queue, bbs (in insertion order), the block being built
\* (cur, None between blocks) and the instruction it has come to, and the
\* block starts expanded so far.

\* one iteration of the 'insns loop on current_bb at current_insn
bb_insn_step(m, xs, current_bb, current_insn) ==
    LET current_insn_length == get_insn_length(m, current_insn)
    IN
    IF current_insn_length = 0
    THEN [kind |-> "Err", bb |-> current_bb, next |-> current_insn]
    ELSE
    LET from == get_xrefs_from(xs, current_insn)
        has_fallthrough == \E i \in 1..Len(from) : from[i].typ = Fallthrough
        has_flow_from == \E i \in 1..Len(from) : IsFlow(from[i].typ)
        flow == SelectSeq(from, LAMBDA x : IsFlow(x.typ))
        bb1 == [current_bb EXCEPT
                   !.length = @ + current_insn_length,
                   !.insns = Append(@, current_insn),
                   !.successors = @ \o [i \in 1..Len(flow) |-> flow[i].dst]]
        next_insn == current_insn + current_insn_length
        ends == [bb1 EXCEPT !.successors = Append(@, next_insn)]
    IN
    IF ~has_fallthrough THEN [kind |-> "break", bb |-> bb1, next |-> next_insn]
    ELSE IF has_flow_from THEN [kind |-> "break", bb |-> ends, next |-> next_insn]
    ELSE IF has_flow_to(xs, next_insn)
    THEN [kind |-> "break", bb |-> ends, next |-> next_insn]
    ELSE [kind |-> "continue", bb |-> bb1, next |-> next_insn]

\* a bbs.contains_key that finds no block
bbs_contains_key_Never(bbs, first_insn) == FALSE

\* bbs.contains_key(&first_insn)
bbs_contains_key(bbs, first_insn) ==
    \E i \in 1..Len(bbs) : bbs[i].addr = first_insn

\* the workspace after make_function(0) on a flat image, and a call of
\* get_basic_blocks(rva) that has pushed rva on its queue
InitBlocks ==
    /\ NoAspace
    /\ NoLoad
    /\ \E image \in FlatImages :
          /\ module = FlatModule(image)
          /\ LET r == make_function(FlatModule(image), 0,
                                    [i \in 1..Len(image) |-> 0], {})
             IN  meta = r.meta /\ xrefs = r.xrefs
          /\ \E rva \in Sweep(FlatModule(image), 0) :
                reply = [op |-> "get_basic_blocks_loop", rva |-> rva,
                         queue |-> <<rva>>, bbs |-> <<>>, cur |-> None,
                         insn |-> 0, expanded |-> <<>>, res |-> "running",
                         blocks |-> <<>>]

BlocksRunning == "queue" \in DOMAIN reply /\ reply.res = "running"

\* while let Some(first_insn) = queue.pop_front(): skip a start that has a
\* block, or begin current_bb
QueuePop ==
    /\ BlocksRunning
    /\ reply.cur = None
    /\ reply.queue /= <<>>
    /\ LET first_insn == Head(reply.queue)
       IN  IF bbs_contains_key(reply.bbs, first_insn)
           THEN reply' = [reply EXCEPT !.queue = Tail(@)]
           ELSE reply' = [reply EXCEPT
                             !.queue = Tail(@),
                             !.cur = <<[addr |-> first_insn, length |-> 0,
                                        predecessors |-> <<>>,
                                        successors |-> <<>>,
                                        insns |-> <<>>]>>,
                             !.insn = first_insn,
                             !.expanded = Append(@, first_insn)]
    /\ UNCHANGED <<aspaceVars, module, meta, xrefs, loadVars>>

\* one iteration of the 'insns loop; at its break the successors are
\* enqueued and the block is committed
InsnStep ==
    /\ BlocksRunning
    /\ reply.cur /= None
    /\ LET r == bb_insn_step(meta, xrefs, reply.cur[1], reply.insn)
       IN  CASE r.kind = "Err" ->
                    reply' = [reply EXCEPT !.res = "Err", !.cur = None,
                                           !.queue = <<>>, !.bbs = <<>>]
             [] r.kind = "continue" ->
                    reply' = [reply EXCEPT !.cur = <<r.bb>>, !.insn = r.next]
             [] OTHER ->
                    reply' = [reply EXCEPT
                                 !.queue = @ \o r.bb.successors,
                                 !.bbs = Append(@, r.bb),
                                 !.cur = None]
    /\ UNCHANGED <<aspaceVars, module, meta, xrefs, loadVars>>

\* the queue is empty: fill in the predecessors and return the blocks, in
\* the iteration order of the HashMap
BlocksReturn ==
    /\ BlocksRunning
    /\ reply.cur = None
    /\ reply.queue = <<>>
    /\ \E order \in ValuesOrders(reply.bbs) :
          reply' = [reply EXCEPT
                       !.res = "Ok",
                       !.blocks = collect_blocks(reply.bbs, order)]
    /\ UNCHANGED <<aspaceVars, module, meta, xrefs, loadVars>>

NextBlocks == QueuePop \/ InsnStep \/ BlocksReturn

\* the call is one thread of control that takes its next step as long as
\* it has one
SpecBlocks == InitBlocks /\ [][NextBlocks]_vars /\ WF_vars(NextBlocks)


\* no block start has been expanded twice
ExpandedOnce ==
    \A i, j \in 1..Len(reply.expanded) :
        i /= j => reply.expanded[i] /= reply.expanded[j]

\* the call has returned: the blocks, or the error of an address without
\* instruction metadata
BlocksReturned ==
    \/ reply.res = "Ok"
    \/ /\ reply.res = "Err"
       /\ get_insn_length(meta, reply.insn) = 0

\* C27: get_basic_blocks(entry) returns on every xref graph of a finite
\* image, self-loops and blocks that jump to each other included: no block
\* start is expanded twice, and in the end the call returns the blocks or
\* the error of a reached address without instruction metadata.
C27_Terminates == []ExpandedOnce /\ <>BlocksReturned

\* the loops agree with get_basic_blocks computed in one piece
StepsAgree ==
    ("queue" \in DOMAIN reply /\ reply.res /= "running") =>
        [res |-> reply.res, blocks |-> reply.blocks]
            \in get_basic_blocks(meta, xrefs, reply.rva)

\* the call has returned the one block of EB FE, whose successor is itself
C27_Witness ==
    /\ module.image = Scenario1
    /\ "queue" \in DOMAIN reply
    /\ reply.res = "Ok"
    /\ reply.expanded = <<0>>
    /\ reply.blocks[1].successors = <<0>>


\* ---------------------------------------------------------------------
\* NFABuilder::build (flirt/src/nfa.rs).  A state is its transitions, by
\* symbol, each the index of a state with 0 for "invalid", and its alive
\* set; the states are numbered from 0 in the order add_state made them.
\* ---------------------------------------------------------------------

MaxPatterns == 2

MaxPatternLen == 3

\* the symbols of the patterns: AA, BB and the wildcard
NfaSymbols == {170, 187, WILDCARD}

\* State::new
State_new == [transitions |-> [s \in NfaSymbols |-> 0], alive |-> {}]

\* Transition::is_valid
Transition_is_valid(t) == t /= 0

\* State::is_terminal
State_is_terminal(state) ==
    ~ \E s \in NfaSymbols : Transition_is_valid(state.transitions[s])

\* StateTable::add_state: the table with the new state, and its index
add_state(states) ==
    [states |-> Append(states, State_new), index |-> Len(states)]

\* the while loop of build over the queue of steps
RECURSIVE build_loop(_, _)
build_loop(q, states) ==
    IF q = <<>> THEN states
    ELSE
    LET step == Head(q)
        index == step.state_pointer + 1
        states1 == [states EXCEPT ![index].alive = @ \cup {step.pattern_index}]
    IN
    IF Len(step.symbols) = 0 THEN build_loop(Tail(q), states1)
    ELSE
    LET symbol == step.symbols[1]
        transition == states1[index].transitions[symbol]
    IN
    IF symbol = WILDCARD THEN build_loop(Tail(q), states1)
    ELSE
    LET added == add_state(states1)
        next_state == IF Transition_is_valid(transition) THEN transition
                      ELSE added.index
        states2 == IF Transition_is_valid(transition) THEN states1
                   ELSE [added.states EXCEPT
                            ![index].transitions[symbol] = next_state]
    IN  build_loop(Append(Tail(q),
                          [state_pointer |-> next_state,
                           pattern_index |-> step.pattern_index,
                           symbols |-> Tail(step.symbols)]),
                   states2)

\* NFABuilder::build: the states of the table; patterns are numbered from 0
NFABuilder_build(patterns) ==
    LET start == add_state(<<>>)
    IN  build_loop([i \in 1..Len(patterns) |->
                       [state_pointer |-> start.index,
                        pattern_index |-> i - 1,
                        symbols |-> patterns[i]]],
                   start.states)

NfaPatterns == UNION {[1..n -> NfaSymbols] : n \in 0..MaxPatternLen}

InitNfa ==
    /\ NoAspace
    /\ NoFlow
    /\ build = [op |-> "none"]
    /\ relocs = [op |-> "none"]
    /\ flirt = [op |-> "NFA::new", patterns |-> <<>>]

\* NFABuilder::add_pattern(pattern)
AddPattern(pattern) ==
    /\ flirt.op \in {"NFA::new", "add_pattern"}
    /\ Len(flirt.patterns) < MaxPatterns
    /\ flirt' = [op |-> "add_pattern",
                 patterns |-> Append(flirt.patterns, pattern)]
    /\ UNCHANGED <<aspaceVars, wsVars, build, relocs>>

\* NFABuilder::build()
Build ==
    /\ flirt.op \in {"NFA::new", "add_pattern"}
    /\ flirt' = [op |-> "build", patterns |-> flirt.patterns,
                 states |-> NFABuilder_build(flirt.patterns)]
    /\ UNCHANGED <<aspaceVars, wsVars, build, relocs>>

NextNfa ==
    \/ \E pattern \in NfaPatterns : AddPattern(pattern)
    \/ Build

SpecNfa == InitNfa /\ [][NextNfa]_vars


\* the state the first k symbols of pattern lead to from the start state,
\* -1 when a symbol on the way has no valid transition
RECURSIVE NfaWalk(_, _)
NfaWalk(pattern, k) ==
    IF k = 0 THEN 0
    ELSE LET before == NfaWalk(pattern, k - 1)
         IN  IF before < 0 \/ before >= Len(flirt.states) THEN 0 - 1
             ELSE LET t == flirt.states[before + 1].transitions[pattern[k]]
                  IN  IF t = 0 THEN 0 - 1 ELSE t

\* every valid transition points to a state of the table, not the start
TransitionsInTable ==
    \A i \in 1..Len(flirt.states) : \A s \in NfaSymbols :
        LET t == flirt.states[i].transitions[s]
        IN  t /= 0 => (t >= 1 /\ t < Len(flirt.states))

\* pattern number i can be walked to its end through states where it is
\* alive, and the state at its end is terminal
WalkedToTheEnd(i) ==
    LET p == flirt.patterns[i]
    IN  /\ \A k \in 0..Len(p) :
               /\ NfaWalk(p, k) >= 0
               /\ (i - 1) \in flirt.states[NfaWalk(p, k) + 1].alive
        /\ State_is_terminal(flirt.states[NfaWalk(p, Len(p)) + 1])

\* patterns i and j are in the same state after k symbols exactly when
\* their first k symbols are the same
SharedAlongPrefix(i, j) ==
    LET p == flirt.patterns[i]
        q == flirt.patterns[j]
    IN  \A k \in 0..Min(Len(p), Len(q)) :
            (NfaWalk(p, k) >= 0 /\ NfaWalk(q, k) >= 0) =>
                (NfaWalk(p, k) = NfaWalk(q, k)
                     <=> SubSeq(p, 1, k) = SubSeq(q, 1, k))

\* C28: after build every pattern can be walked from the start state along
\* a valid transition for each of its symbols, bytes and wildcards alike,
\* through states where it is alive, to a terminal state; two patterns
\* share states exactly along their common prefix; and every valid
\* transition points to an existing state other than the start state.
C28_BuiltTable ==
    flirt.op = "build" =>
        /\ TransitionsInTable
        /\ \A i \in 1..Len(flirt.patterns) : WalkedToTheEnd(i)
        /\ \A i, j \in 1..Len(flirt.patterns) : SharedAlongPrefix(i, j)

\* the same for patterns of bytes only that all have one length
C28_BuiltTableOfBytes ==
    (/\ flirt.op = "build"
     /\ \A i \in 1..Len(flirt.patterns) :
            /\ Len(flirt.patterns[i]) = Len(flirt.patterns[1])
            /\ \A k \in 1..Len(flirt.patterns[i]) :
                   flirt.patterns[i][k] /= WILDCARD) =>
        /\ TransitionsInTable
        /\ \A i \in 1..Len(flirt.patterns) : WalkedToTheEnd(i)
        /\ \A i, j \in 1..Len(flirt.patterns) : SharedAlongPrefix(i, j)


\* ---------------------------------------------------------------------
\* DenseAddressSpace::map that fails
\* ---------------------------------------------------------------------

\* C30: a map (or map_empty) call that returns NotMapped leaves every page
\* of the address space as it was before the call, also when the call is
\* for several pages.
C30_FailedMapChangesNothing ==
    [][(last'.op \in {"map", "map_empty"} /\ last'.res = "NotMapped")
           => pages' = pages]_vars

\* a map call for two pages has returned NotMapped on an address space
\* that has a mapped page
C30_Witness ==
    /\ last.op = "map"
    /\ last.res = "NotMapped"
    /\ last.b = 2 * PAGE_SIZE
    /\ \E p \in 0..(NumSlots(pages) - 1) : Mapped(pages, p)

====
